---- MODULE Spec2Model ----
(***************************************************************************)
(* Debate orchestration over a shared API-key rotation pool.               *)
(*                                                                         *)
(*   backend/app/core/config.py          APIKeyManager, Settings           *)
(*   backend/app/agents/base_agent.py    BaseAgent.invoke                  *)
(*   backend/app/agents/enhanced_debate.py                                 *)
(*        ReaderAgent.respond, AnalystAgent.analyze_and_extract,           *)
(*        EnhancedDebateSystem.run_debate, stream_debate,                  *)
(*        run_batch_debates, AnalystAgent.convert_to_schema                *)
(*   backend/app/agents/cartographer.py  extract_from_debate,              *)
(*        enrich_connections, convert_to_schema                            *)
(*   backend/app/agents/debate_orchestrator.py  debate_topic,              *)
(*        auto_debate_top_topics, enrich_graph                             *)
(*   backend/app/core/schemas.py         NodeType, EdgeType, GraphNode,    *)
(*        GraphEdge                                                        *)
(*   backend/app/extractors/base_extractor.py  slugify, _add_node,         *)
(*        _add_edge, extract_from_record, extract_all                      *)
(*   backend/app/core/neo4j_client.py    create_node, create_nodes_batch,  *)
(*        create_edge                                                      *)
(*   backend/app/debate_ui.py            the streaming loop and its        *)
(*        running flag, the queue tab with its completed log               *)
(*   backend/app/core/debate_history.py  save_debate                       *)
(*   backend/scripts/run_enhanced_debate.py  run_auto_debate               *)
(*                                                                         *)
(* The specifications share the variables:                                 *)
(*   SpecPool        the pool's own interface (get_key, rotate,            *)
(*                   mark_failed), over every configured key list          *)
(*   SpecInvoke      BaseAgent.invoke of the singleton agents over the     *)
(*                   pool, one step per model call                         *)
(*   FairSpecInvoke  SpecInvoke, where a model call that was issued comes  *)
(*                   back (it returns or raises)                           *)
(*   SpecDebate      EnhancedDebateSystem.run_debate: the debaters'        *)
(*                   respond and the analyst's analyze_and_extract, one    *)
(*                   step per model call                                   *)
(*   SpecStream      EnhancedDebateSystem.stream_debate, with the events   *)
(*                   it yields                                             *)
(*   SpecTopic       DebateOrchestrator.debate_topic                       *)
(*   SpecOrchestrate the three debate entry points together                *)
(*   SpecNormalize   the two convert_to_schema over raw payloads           *)
(*   SpecBatch       the accumulators of the batch runs                    *)
(*   SpecStore       the node stores: the extractor's dict and the         *)
(*                   database upserts                                      *)
(*   SpecUI          the interface's loop over stream_debate, one step     *)
(*                   per yielded event, with the stop control              *)
(*   SpecThreads     two threads calling the pool's operations, the        *)
(*                   increment of rotate split into its load and store     *)
(*   SpecSlug        slugify and the cartographer's id expression over     *)
(*                   short texts                                           *)
(*   SpecEnrich      enrich_graph over a small graph and the model's       *)
(*                   proposed edges                                        *)
(*   SpecVocabulary  the analyst's convert_to_schema over one node and one *)
(*                   edge typed by each member of the enums                *)
(*   SpecQueue       the queue tab: the loop over the pending topics with  *)
(*                   the stream loop inside                                *)
(*   SpecExtract     extract_all, one step per loaded record               *)
(*   SpecResume      run_auto_debate with resume on, run after run, one    *)
(*                   step per topic                                        *)
(* A failure message is modelled by the set of substrings it contains      *)
(* among those the retry loops test for.                                   *)
(***************************************************************************)
EXTENDS Integers, Sequences, FiniteSets, TLC

\* ------------------------------------------------------------------ bounds
MaxKeys == 2        \* longest configured key list
MaxIndex == 3       \* cap of current_index (a Python int, unbounded)
MaxRetries == 3     \* largest max_retries an invocation is started with
MaxRounds == 2      \* largest number of rounds of a debate
MaxBatch == 2       \* most raw records (nodes and edges) of one payload
MaxTopics == 3      \* most topics of a batch run
MaxQueue == 2       \* most topics in the topics file of the queue tab
MaxNodes == 4       \* the extractor loads a further record while it holds fewer nodes
MaxLen == 4         \* longest raw id / name a slug is derived from

\* ------------------------------------------------------- program constants
DefaultMaxRetries == 3   \* max_retries=3 of invoke / respond / analyze_and_extract
HistoryWindow == 4       \* conversation_history[-4:] of ReaderAgent.respond
RespondSleep == 2        \* time.sleep(2) of ReaderAgent.respond
SlugLimit == 100         \* text[:100] of slugify

Creds == {"k1", "k2", "k3"}
NoKey == "none"

\* The configured key lists: every list over Creds of length 0..MaxKeys
\* (a key may be configured twice).
RECURSIVE SeqsUpTo(_, _)
SeqsUpTo(S, n) ==
    IF n = 0 THEN {<<>>}
    ELSE LET shorter == SeqsUpTo(S, n - 1)
         IN  shorter \cup {Append(s, x) : s \in {t \in shorter : Len(t) = n - 1}, x \in S}

KeyLists == SeqsUpTo(Creds, MaxKeys)

Range(s) == {s[i] : i \in 1..Len(s)}

VARIABLES
    keys,           \* APIKeyManager.keys
    current_index,  \* APIKeyManager.current_index
    failed_keys,    \* APIKeyManager.failed_keys
    last,           \* the last call made on the pool's interface, its outcome, and
                    \* streak: the mark_failed calls in a row that preceded it
    llm_key,        \* per agent: the key its client (_llm) is bound to
    call,           \* the retry loop in progress (or the last one finished)
    enable_strategist,  \* EnhancedDebateSystem.enable_strategist
    rounds,         \* run_debate's argument
    round_num,      \* run_debate's loop variable
    conversation,   \* run_debate's transcript
    pc,             \* where the orchestrator is: idle, the agent it waits for,
                    \* done, raised
    extractions,    \* one entry per call of analyze_and_extract: the turns it was given
    mode,           \* the orchestrator entered: run_debate, stream_debate, debate_topic
    handed,         \* one entry per debater call: the agent and the history it was given
    events,         \* what the generator stream_debate has yielded
    result,         \* what the orchestrator returned (nodes and edges)
    raw_nodes,      \* convert_to_schema's argument
    raw_edges,      \* convert_to_schema's argument
    schema,         \* what the two convert_to_schema returned for them
    all_nodes,      \* the accumulator of run_batch_debates / auto_debate_top_topics
    all_edges,      \* the accumulator of run_batch_debates / auto_debate_top_topics
    batch,          \* the batch loop entered: run_batch_debates, auto_debate_top_topics
    topics_done,    \* per topic the batch loop has been through: what its debate gave
    topics,         \* len(topics) of the batch run (of topics[:max_debates])
    batch_result,   \* what the batch run returned
    nodes,          \* BaseGraphExtractor.nodes
    db,             \* the Node records of the Neo4j database, by id
    db_edges,       \* the RELATES relationships of the Neo4j database
    running,        \* st.session_state.single_running / auto_running
    ui,             \* the UI's stream loop: idle, streaming, stopped (break),
                    \* finished, failed (except)
    paused,         \* the yield the generator stream_debate is suspended at
    threads,        \* per thread: the pool method it is in, where, and its locals
    completed,      \* the rotate / mark_failed calls that have returned
    raw_text,       \* a raw id / name a slug is derived from
    slug,           \* the derivation applied, its result, and the result of
                    \* applying it to that result
    existing_nodes, \* enrich_graph's argument
    existing_edges, \* enrich_graph's argument
    new_edges,      \* what enrich_graph returned
    node_count,     \* the UI loop's tally of the nodes of graph_update events
    edge_count,     \* the UI loop's tally of the edges of graph_update events
    messages,       \* the number of message events the UI loop has kept
    saved,          \* the debates written to the history (save_debate)
    all_topics,     \* the lines of the topics file
    pending,        \* the topics of this run: those not in the completed log
    auto_i,         \* the position of the queue loop in pending
    completed_log,  \* the completed-topics file, one line per save_completed
    attempted,      \* the debates the queue loop has started, with their outcome
    extractor_edges \* BaseGraphExtractor.edges

poolVars == <<keys, current_index, failed_keys, last>>
debateVars == <<enable_strategist, rounds, round_num, conversation, pc, extractions,
                mode, handed, events, result>>
normVars == <<raw_nodes, raw_edges, schema>>
batchVars == <<all_nodes, all_edges, batch, topics_done, topics, batch_result>>
storeVars == <<nodes, db, db_edges>>
uiVars == <<running, ui, paused>>
threadVars == <<threads, completed>>
slugVars == <<raw_text, slug>>
enrichVars == <<existing_nodes, existing_edges, new_edges>>
tallyVars == <<node_count, edge_count, messages, saved>>
queueVars == <<all_topics, pending, auto_i, completed_log, attempted>>
extractVars == <<extractor_edges>>
libVars == <<normVars, batchVars, storeVars, uiVars, threadVars, slugVars, enrichVars,
             tallyVars, queueVars, extractVars>>
vars == <<keys, current_index, failed_keys, last, llm_key, call,
          enable_strategist, rounds, round_num, conversation, pc, extractions,
          mode, handed, events, result,
          raw_nodes, raw_edges, schema, all_nodes, all_edges, batch, topics_done,
          topics, batch_result, nodes, db, db_edges, running, ui, paused,
          threads, completed, raw_text, slug, existing_nodes, existing_edges,
          new_edges, node_count, edge_count, messages, saved, all_topics, pending,
          auto_i, completed_log, attempted, extractor_edges>>

\* ------------------------------------------------------------ APIKeyManager

\* available_keys = [k for k in self.keys if k not in self.failed_keys]
available_keys(ks, failed) == SelectSeq(ks, LAMBDA k : k \notin failed)

\* A get_key that reports an exhausted pool as an error.
get_key_raise_exhausted(ks, idx, failed) ==
    LET avail == SelectSeq(ks, LAMBDA k : k \notin failed)
    IN  IF Len(avail) = 0
        THEN [raised |-> TRUE, key |-> NoKey, failed |-> failed, reset |-> FALSE]
        ELSE [raised |-> FALSE, key |-> avail[(idx % Len(avail)) + 1],
              failed |-> failed, reset |-> FALSE]

\* A get_key that forgets the reset of an exhausted pool.
get_key_noreset(ks, idx, failed) ==
    IF Len(ks) = 0
    THEN [raised |-> TRUE, key |-> NoKey, failed |-> failed, reset |-> FALSE]
    ELSE [raised |-> FALSE, key |-> ks[(idx % Len(ks)) + 1],
          failed |-> failed, reset |-> FALSE]

\* APIKeyManager.get_key: the value returned (or the ValueError), and the
\* exclusion set it leaves.
get_key(ks, idx, failed) ==
    IF Len(ks) = 0
    THEN [raised |-> TRUE, key |-> NoKey, failed |-> failed, reset |-> FALSE]
    ELSE LET avail == available_keys(ks, failed)
         IN  IF Len(avail) = 0
             THEN [raised |-> FALSE, key |-> ks[(idx % Len(ks)) + 1],
                   failed |-> {}, reset |-> TRUE]
             ELSE [raised |-> FALSE, key |-> avail[(idx % Len(avail)) + 1],
                   failed |-> failed, reset |-> FALSE]

\* A rotate that steps over a key.
rotate_by_two(idx) == idx + 2

\* APIKeyManager.rotate: self.current_index += 1
rotate(idx) == idx + 1

\* A mark_failed that forgets to rotate.
mark_failed_norotate(key, idx, failed) ==
    [index |-> idx, failed |-> failed \cup {key}]

\* APIKeyManager.mark_failed: failed_keys.add(key); rotate()
mark_failed(key, idx, failed) ==
    [index |-> rotate(idx), failed |-> failed \cup {key}]

\* The pool as APIKeyManager.__init__ leaves it.
PoolInit(ks) ==
    /\ keys = ks
    /\ current_index = 0
    /\ failed_keys = {}
    /\ last = [op |-> "init", arg |-> NoKey, raised |-> FALSE, key |-> NoKey,
               reset |-> FALSE, streak |-> 0]

\* The agents and their retry loops take no part in SpecPool.
BaseAgents == {"Predator", "Guardian", "Cartographer"}
Debaters == {"Attacker", "Defender", "Strategist"}
Agents == BaseAgents \cup Debaters \cup {"Analyst"}

\* ----------------------------------------------- core/schemas.py and the normalizers
\* A text is the sequence of its characters; upper and lower case, the space
\* and the tab are told apart.
None == <<"None">>                \* Python's None where a text is expected
Unnamed == <<"u", "n", "n", "a", "m", "e", "d">>

\* str.lower()
lower(s) == [i \in 1..Len(s) |-> IF s[i] = "A" THEN "a" ELSE s[i]]

\* str.replace(old, new) for one-character old and new
replace(s, old, new) == [i \in 1..Len(s) |-> IF s[i] = old THEN new ELSE s[i]]

IsSpace(c) == c \in {" ", "\t"}

\* A raw record is a dict of the parsed payload: has is the set of its keys,
\* a key it lacks holds the empty value.
Get(d, k, default) == IF k \in d.has THEN d[k] ELSE default

\* dict.get(k, default) of a mapping dictionary
MapGet(m, k, default) == IF k \in DOMAIN m THEN m[k] ELSE default

\* class NodeType / class EdgeType: the values of the enums
NodeType ==
    {"concept", "technique", "risk", "defense", "person", "book", "chapter", "outcome"}
EdgeType ==
    {"leads_to", "prevents", "causes", "counters", "requires", "part_of", "related_to",
     "mentioned_in", "uses", "exploits", "enables", "contradicts", "supports"}

\* GraphNode(id: str, name: str, type, description: Optional[str],
\* source_book: Optional[str]): the validation rejects None for id and name.
GraphNodeValid(id, name) == id # None /\ name # None
GraphNode(id, name, type, description, source_book) ==
    [id |-> id, name |-> name, type |-> type, description |-> description,
     source_book |-> source_book]

\* GraphEdge(source: str, target: str, type, source_book: Optional[str])
GraphEdgeValid(source, target) == source # None /\ target # None
GraphEdge(source, target, type, source_book) ==
    [source |-> source, target |-> target, type |-> type, source_book |-> source_book]

\* What json.loads gives for the "nodes" / "edges" member: a list, or a value
\* a for loop cannot iterate (null, a number).
JList(items) == [json |-> "list", items |-> items]
JNull == [json |-> "null", items |-> <<>>]

\* The list a loop built from what each of its passes appended.
RECURSIVE Flatten(_)
Flatten(ss) == IF ss = <<>> THEN <<>> ELSE Head(ss) \o Flatten(Tail(ss))

Converted(ns, es) == [raised |-> FALSE, nodes |-> ns, edges |-> es]
ConvertRaised == [raised |-> TRUE, nodes |-> <<>>, edges |-> <<>>]

\* AnalystAgent.convert_to_schema: the mapping dictionaries
Analyst_type_map ==
    [concept |-> "concept", technique |-> "technique", risk |-> "risk",
     defense |-> "defense", outcome |-> "outcome", insight |-> "concept"]
Analyst_edge_type_map ==
    [causes |-> "causes", prevents |-> "prevents", enables |-> "enables",
     contradicts |-> "contradicts", supports |-> "related_to",
     relates_to |-> "related_to"]

\* A pass that drops a node whose type label is not in the dictionary.
Analyst_node_strict(n, source) ==
    IF "type" \in n.has /\ n.type \notin DOMAIN Analyst_type_map THEN <<>>
    ELSE <<GraphNode(Get(n, "id", <<>>), Get(n, "name", Get(n, "id", <<>>)),
                     MapGet(Analyst_type_map, Get(n, "type", "concept"), "concept"),
                     Get(n, "description", None), source)>>

\* One pass of "for n in raw_nodes: try: nodes.append(GraphNode(...)) except: continue"
Analyst_node(n, source) ==
    LET id == Get(n, "id", <<>>)
        name == Get(n, "name", Get(n, "id", <<>>))
        type == MapGet(Analyst_type_map, Get(n, "type", "concept"), "concept")
        description == Get(n, "description", None)
    IN  IF GraphNodeValid(id, name)
        THEN <<GraphNode(id, name, type, description, source)>>
        ELSE <<>>

\* One pass of "for e in raw_edges: try: edges.append(GraphEdge(...)) except: continue"
Analyst_edge(e) ==
    LET source == Get(e, "source", <<>>)
        target == Get(e, "target", <<>>)
        type == MapGet(Analyst_edge_type_map, Get(e, "type", "relates_to"), "related_to")
    IN  IF GraphEdgeValid(source, target)
        THEN <<GraphEdge(source, target, type, None)>>
        ELSE <<>>

\* AnalystAgent.convert_to_schema(raw_nodes, raw_edges, source): the two for
\* loops are outside any try, a value that is not iterable raises TypeError.
Analyst_convert_to_schema(rn, re, source) ==
    IF rn.json # "list" \/ re.json # "list" THEN ConvertRaised
    ELSE Converted(Flatten([i \in 1..Len(rn.items) |-> Analyst_node(rn.items[i], source)]),
                   Flatten([i \in 1..Len(re.items) |-> Analyst_edge(re.items[i])]))

\* CartographerAgent.convert_to_schema: the mapping dictionaries
Cartographer_type_map ==
    [concept |-> "concept", technique |-> "technique", risk |-> "risk",
     defense |-> "defense", person |-> "person", outcome |-> "outcome"]
Cartographer_edge_map ==
    [leads_to |-> "leads_to", prevents |-> "prevents", causes |-> "causes",
     uses |-> "uses", counters |-> "counters", requires |-> "requires",
     related_to |-> "related_to", exploits |-> "exploits"]

\* .replace(' ', '_').lower(); on None it raises AttributeError
Cartographer_id(raw) == lower(replace(raw, " ", "_"))

\* ---- extractors/base_extractor.py: slugify
\* \w of the pattern: letters, digits, the underscore
IsWord(c) == c \in {"a", "A", "_"}

\* str.strip()
RECURSIVE lstrip(_)
lstrip(s) == IF s # <<>> /\ IsSpace(Head(s)) THEN lstrip(Tail(s)) ELSE s
RECURSIVE rstrip(_)
rstrip(s) ==
    IF s # <<>> /\ IsSpace(s[Len(s)]) THEN rstrip(SubSeq(s, 1, Len(s) - 1)) ELSE s
strip(s) == rstrip(lstrip(s))

\* re.sub(r'[^\w\s...]', '', text)
remove_special(s) == SelectSeq(s, LAMBDA c : IsWord(c) \/ IsSpace(c))

\* re.sub(r'\s+', '_', text)
RECURSIVE spaces_to_underscore(_)
spaces_to_underscore(s) ==
    IF s = <<>> THEN <<>>
    ELSE IF IsSpace(Head(s)) THEN <<"_">> \o spaces_to_underscore(lstrip(Tail(s)))
    ELSE <<Head(s)>> \o spaces_to_underscore(Tail(s))

\* A cut that loses the first character.
truncate_from_second(s) == SubSeq(s, 2, IF Len(s) < SlugLimit THEN Len(s) ELSE SlugLimit)

\* text[:100]
truncate(s) == SubSeq(s, 1, IF Len(s) < SlugLimit THEN Len(s) ELSE SlugLimit)

\* slugify(text)
slugify(text) == truncate(spaces_to_underscore(remove_special(strip(lower(text)))))

\* One pass of "for node in nodes: try: ... except Exception: print"
Cartographer_node(n, source_book) ==
    LET node_type == MapGet(Cartographer_type_map, Get(n, "type", "concept"), "concept")
        raw == Get(n, "id", Get(n, "name", <<>>))
        name == Get(n, "name", Get(n, "id", Unnamed))
        description == Get(n, "description", None)
    IN  IF raw # None /\ GraphNodeValid(Cartographer_id(raw), name)
        THEN <<GraphNode(Cartographer_id(raw), name, node_type, description, source_book)>>
        ELSE <<>>

\* One pass of "for edge in edges: try: ... except Exception: print"
Cartographer_edge(e, source_book) ==
    LET edge_type ==
            MapGet(Cartographer_edge_map, Get(e, "relation", "related_to"), "related_to")
        source == Get(e, "source", <<>>)
        target == Get(e, "target", <<>>)
    IN  IF source # None /\ target # None
        THEN <<GraphEdge(Cartographer_id(source), Cartographer_id(target), edge_type,
                         source_book)>>
        ELSE <<>>

\* CartographerAgent.convert_to_schema(nodes, edges, source_book)
Cartographer_convert_to_schema(rn, re, source_book) ==
    IF rn.json # "list" \/ re.json # "list" THEN ConvertRaised
    ELSE Converted(
             Flatten([i \in 1..Len(rn.items) |-> Cartographer_node(rn.items[i], source_book)]),
             Flatten([i \in 1..Len(re.items) |-> Cartographer_edge(re.items[i], source_book)]))

\* ------------------------------------------------- the raw records of a payload
\* A key of a raw record: present with a value, or absent.
Some(v) == [in |-> TRUE, v |-> v]
NoText == [in |-> FALSE, v |-> <<>>]
NoLabel == [in |-> FALSE, v |-> ""]
OptText(S) == {Some(v) : v \in S} \cup {NoText}
OptLabel(S) == {Some(v) : v \in S} \cup {NoLabel}
Has(k, o) == IF o.in THEN {k} ELSE {}

RawNodeOf(i, n, t, d) ==
    [has |-> Has("id", i) \cup Has("name", n) \cup Has("type", t)
               \cup Has("description", d),
     id |-> i.v, name |-> n.v, type |-> t.v, description |-> d.v]

RawEdgeOf(s, t, ty, rel) ==
    [has |-> Has("source", s) \cup Has("target", t) \cup Has("type", ty)
               \cup Has("relation", rel),
     source |-> s.v, target |-> t.v, type |-> ty.v, relation |-> rel.v]

IdTexts == {<<>>, <<"a">>, <<"A">>, <<"A", " ", "a">>, <<"a", "\t", "A">>, None}
NameTexts == {<<"A", " ">>, None}
TypeLabels == {"technique", "person", "insight", "bias"}
Descriptions == {<<"a">>}
TargetTexts == {<<"a">>, <<"A", " ", "a">>, None}
EdgeTypeLabels == {"causes", "enables", "leads_to", "supports", "bias"}
RelationLabels == {"causes", "bias"}

\* The raw nodes: every id and name (present or absent) without a type,
\* every type label and description on the id "a", and the records with an
\* id, a name and a type.
RawNodes ==
    {RawNodeOf(i, n, NoLabel, NoText) : i \in OptText(IdTexts), n \in OptText(NameTexts)}
    \cup {RawNodeOf(Some(<<"a">>), NoText, t, d) :
              t \in OptLabel(TypeLabels), d \in OptText(Descriptions)}
    \cup {RawNodeOf(Some(<<"a">>), Some(<<"A", " ">>), Some(t), NoText) :
              t \in {"technique", "insight"}}

\* The raw edges: every source and target (present or absent) without a
\* label, and every label under the keys "type" and "relation" on a -> a.
RawEdges ==
    {RawEdgeOf(s, t, NoLabel, NoLabel) :
         s \in OptText(IdTexts), t \in OptText(TargetTexts)}
    \cup {RawEdgeOf(Some(<<"a">>), Some(<<"a">>), ty, rel) :
              ty \in OptLabel(EdgeTypeLabels), rel \in OptLabel(RelationLabels)}

Source == <<"a", "A">>            \* the source label handed to convert_to_schema

NoSchema == [by |-> "none", raised |-> FALSE, nodes |-> <<>>, edges |-> <<>>]
SchemaOf(who, r) ==
    [by |-> who, raised |-> r.raised, nodes |-> r.nodes, edges |-> r.edges]

\* The batches of raw records: at most MaxBatch records in all, or a member
\* that is not a list.
BatchesOf(k, j) ==
    [rn : {JList(ns) : ns \in [1..k -> RawNodes]},
     re : {JList(es) : es \in [1..j -> RawEdges]}]
Batches ==
    UNION {BatchesOf(p[1], p[2]) :
               p \in {q \in (0..MaxBatch) \X (0..MaxBatch) : q[1] + q[2] <= MaxBatch}}
NullBatches ==
    {[rn |-> JNull, re |-> JList(es)] : es \in [1..1 -> RawEdges] \cup {<<>>}}
    \cup {[rn |-> JList(ns), re |-> JNull] : ns \in [1..1 -> RawNodes] \cup {<<>>}}

NoNormalize == raw_nodes = JList(<<>>) /\ raw_edges = JList(<<>>) /\ schema = NoSchema
NoBatchResult == [status |-> "none", nodes |-> <<>>, edges |-> <<>>]
NoBatch ==
    /\ all_nodes = <<>>
    /\ all_edges = <<>>
    /\ batch = "none"
    /\ topics_done = <<>>
    /\ topics = 0
    /\ batch_result = NoBatchResult
NoStore == nodes = <<>> /\ db = {} /\ db_edges = {}
NoUI == running = FALSE /\ ui = "idle" /\ paused = "none"
Threads == {"th1", "th2"}
Idle == [op |-> "idle", at |-> "idle", arg |-> NoKey, loaded |-> 0,
         available_keys |-> <<>>, result |-> NoKey]
NoThreads == threads = [t \in Threads |-> Idle] /\ completed = 0
NoSlug == [by |-> "none", once |-> <<>>, twice |-> <<>>, applied |-> 0]
NoSlugs == raw_text = <<>> /\ slug = NoSlug
NoEnrichment == [status |-> "none", edges |-> <<>>]
NoEnrich == existing_nodes = <<>> /\ existing_edges = <<>> /\ new_edges = NoEnrichment
NoExtract == extractor_edges = <<>>
NoTally == node_count = 0 /\ edge_count = 0 /\ messages = 0 /\ saved = <<>>
NoQueue ==
    /\ all_topics = <<>>
    /\ pending = <<>>
    /\ auto_i = 0
    /\ completed_log = <<>>
    /\ attempted = <<>>
NoLib ==
    /\ NoNormalize /\ NoBatch /\ NoStore /\ NoUI /\ NoThreads /\ NoSlugs /\ NoEnrich
    /\ NoTally /\ NoQueue /\ NoExtract

NoDebate ==
    /\ enable_strategist = FALSE
    /\ rounds = 0
    /\ round_num = 0
    /\ conversation = <<>>
    /\ pc = "idle"
    /\ extractions = <<>>
    /\ mode = "none"
    /\ handed = <<>>
    /\ events = <<>>
    /\ result = [status |-> "none", nodes |-> <<>>, edges |-> <<>>]

NoCall ==
    [kind |-> "none", agent |-> "none", max_retries |-> 0, attempt |-> 0,
     status |-> "idle", result |-> [type |-> "none", text |-> "", msg |-> {}],
     log |-> <<>>]

InitPool ==
    /\ \E ks \in KeyLists : PoolInit(ks)
    /\ llm_key = [a \in Agents |-> NoKey]
    /\ call = NoCall
    /\ NoDebate
    /\ NoLib

GetKey ==
    LET r == get_key(keys, current_index, failed_keys)
    IN  /\ failed_keys' = r.failed
        /\ last' = [op |-> "get_key", arg |-> NoKey, raised |-> r.raised,
                    key |-> r.key, reset |-> r.reset,
                    streak |-> IF last.op = "mark_failed" THEN last.streak ELSE 0]
        /\ UNCHANGED <<keys, current_index, llm_key, call, debateVars, libVars>>

Rotate ==
    /\ current_index < MaxIndex
    /\ current_index' = rotate(current_index)
    /\ last' = [op |-> "rotate", arg |-> NoKey, raised |-> FALSE, key |-> NoKey,
                reset |-> FALSE, streak |-> 0]
    /\ UNCHANGED <<keys, failed_keys, llm_key, call, debateVars, libVars>>

MarkFailed(k) ==
    /\ current_index < MaxIndex
    /\ LET r == mark_failed(k, current_index, failed_keys)
       IN  /\ current_index' = r.index
           /\ failed_keys' = r.failed
    /\ last' = [op |-> "mark_failed", arg |-> k, raised |-> FALSE, key |-> NoKey,
                reset |-> FALSE,
                streak |-> IF last.op = "mark_failed" THEN last.streak + 1 ELSE 1]
    /\ UNCHANGED <<keys, llm_key, call, debateVars, libVars>>

NextPool ==
    \/ GetKey
    \/ Rotate
    \/ \E k \in Creds : MarkFailed(k)

SpecPool == InitPool /\ [][NextPool]_vars

\* --------------------------------------------------------------- BaseAgent

\* What a model call can do: return a text, or raise with a message. A message
\* is the set of the substrings it contains among those the retry loops test.
Texts == {"t1", "t2"}
Msgs ==
    { {"quota"}, {"429"}, {"rate", "limit"}, {"timeout"}, {"connection"},
      {"timeout", "quota"}, {} }

NoResult == [type |-> "none", text |-> "", msg |-> {}]
TextResult(t) == [type |-> "text", text |-> t, msg |-> {}]
\* raise (re-raise of the client's exception)
Reraised(m) == [type |-> "Exception", text |-> "", msg |-> m]
\* raise RateLimitError(f"All API keys exhausted after {max_retries} attempts")
RateLimitError == [type |-> "RateLimitError", text |-> "", msg |-> {}]

\* An invoke that retries whatever fails.
classify_invoke_retry_all(msg) ==
    IF "rate" \in msg \/ "limit" \in msg \/ "quota" \in msg THEN "rate_limit"
    ELSE "transient"

\* An invoke that rotates the key on a timeout too.
classify_invoke_timeout_rotates(msg) ==
    IF "rate" \in msg \/ "limit" \in msg \/ "quota" \in msg \/ "timeout" \in msg
    THEN "rate_limit"
    ELSE IF "connection" \in msg THEN "transient"
    ELSE "non_retryable"

\* BaseAgent.invoke, the except branch: the class of str(e).lower()
classify_invoke(msg) ==
    IF "rate" \in msg \/ "limit" \in msg \/ "quota" \in msg THEN "rate_limit"
    ELSE IF "timeout" \in msg \/ "connection" \in msg THEN "transient"
    ELSE "non_retryable"

\* time.sleep(2 ** attempt)
invoke_backoff(attempt) == 2 ^ attempt

\* A _rotate_and_retry that keeps the client it had.
rotate_and_retry_stale(ks, idx, failed, bound) ==
    [index |-> rotate(idx), failed |-> failed, llm |-> bound]

\* BaseAgent._rotate_and_retry: settings.rotate_api_key(); self._init_llm()
\* (_init_llm binds the client to settings.get_api_key()).
rotate_and_retry(ks, idx, failed, bound) ==
    LET i2 == rotate(idx)
        g == get_key(ks, i2, failed)
    IN  [index |-> i2, failed |-> g.failed, llm |-> g.key]

\* A loop that never counts its attempts.
AfterRetryable_uncounted(c, entry) ==
    [c EXCEPT !.log = Append(c.log, entry)]

\* The loop of invoke after an attempt that did not return: range(max_retries)
\* goes on, or is exhausted and the RateLimitError after the loop is raised.
AfterRetryable(c, entry) ==
    [c EXCEPT !.attempt = c.attempt + 1,
              !.log = Append(c.log, entry),
              !.status = IF c.attempt + 1 < c.max_retries THEN "running" ELSE "raised",
              !.result = IF c.attempt + 1 < c.max_retries THEN NoResult
                         ELSE RateLimitError]

LogEntry(bound, ok, text, msg, idx, idx2, bound2, sleep) ==
    [key |-> bound, ok |-> ok, text |-> text, msg |-> msg, idx |-> idx,
     idx2 |-> idx2, llm2 |-> bound2, sleep |-> sleep]

\* invoke(user_prompt, context, max_retries) is entered by agent a.
InvokeStart(a, mr) ==
    /\ call.status # "running"
    /\ call' = [kind |-> "invoke", agent |-> a, max_retries |-> mr, attempt |-> 0,
                status |-> IF mr > 0 THEN "running" ELSE "raised",
                result |-> IF mr > 0 THEN NoResult ELSE RateLimitError,
                log |-> <<>>]
    /\ UNCHANGED <<keys, current_index, failed_keys, last, llm_key, debateVars, libVars>>

Invoking == call.kind = "invoke" /\ call.status = "running"

\* response = self._llm.invoke(full_prompt); return response.content
InvokeReturn(t) ==
    /\ Invoking
    /\ LET a == call.agent
           e == LogEntry(llm_key[a], TRUE, t, {}, current_index, current_index,
                         llm_key[a], 0)
       IN  call' = [call EXCEPT !.status = "returned", !.result = TextResult(t),
                                !.log = Append(call.log, e)]
    /\ UNCHANGED <<keys, current_index, failed_keys, last, llm_key, debateVars, libVars>>

\* except: rate limit -> _rotate_and_retry(); sleep(2 ** attempt); continue
InvokeRateLimited(m) ==
    /\ Invoking
    /\ classify_invoke(m) = "rate_limit"
    /\ current_index < MaxIndex
    /\ LET a == call.agent
           r == rotate_and_retry(keys, current_index, failed_keys, llm_key[a])
           e == LogEntry(llm_key[a], FALSE, "", m, current_index, r.index, r.llm,
                         invoke_backoff(call.attempt))
       IN  /\ current_index' = r.index
           /\ failed_keys' = r.failed
           /\ llm_key' = [llm_key EXCEPT ![a] = r.llm]
           /\ call' = AfterRetryable(call, e)
    /\ UNCHANGED <<keys, last, debateVars, libVars>>

\* except: timeout / connection -> sleep(2 ** attempt); continue
InvokeTransient(m) ==
    /\ Invoking
    /\ classify_invoke(m) = "transient"
    /\ LET a == call.agent
           e == LogEntry(llm_key[a], FALSE, "", m, current_index, current_index,
                         llm_key[a], invoke_backoff(call.attempt))
       IN  call' = AfterRetryable(call, e)
    /\ UNCHANGED <<keys, current_index, failed_keys, last, llm_key, debateVars, libVars>>

\* except: anything else -> raise
InvokeNonRetryable(m) ==
    /\ Invoking
    /\ classify_invoke(m) = "non_retryable"
    /\ LET a == call.agent
           e == LogEntry(llm_key[a], FALSE, "", m, current_index, current_index,
                         llm_key[a], 0)
       IN  call' = [call EXCEPT !.status = "raised", !.result = Reraised(m),
                                !.log = Append(call.log, e)]
    /\ UNCHANGED <<keys, current_index, failed_keys, last, llm_key, debateVars, libVars>>

\* Key lists of distinct keys, one per length 1..MaxKeys.
AllCreds == <<"k1", "k2", "k3">>
DistinctKeyLists == {SubSeq(AllCreds, 1, n) : n \in 1..MaxKeys}

\* The module-level singletons (predator, guardian) are built at import:
\* each __init__ runs _init_llm over the fresh pool.
InitInvoke ==
    /\ \E ks \in DistinctKeyLists :
          /\ PoolInit(ks)
          /\ llm_key = [a \in Agents |->
                          IF a \in BaseAgents THEN get_key(ks, 0, {}).key ELSE NoKey]
    /\ call = NoCall
    /\ NoDebate
    /\ NoLib

NextInvoke ==
    \/ \E a \in BaseAgents, mr \in 0..MaxRetries : InvokeStart(a, mr)
    \/ \E t \in Texts : InvokeReturn(t)
    \/ \E m \in Msgs : InvokeRateLimited(m)
    \/ \E m \in Msgs : InvokeTransient(m)
    \/ \E m \in Msgs : InvokeNonRetryable(m)

SpecInvoke == InitInvoke /\ [][NextInvoke]_vars

\* self._llm.invoke is a blocking call: it returns or raises, and the loop goes on.
ModelCallCompletes ==
    \/ \E t \in Texts : InvokeReturn(t)
    \/ \E m \in Msgs : InvokeRateLimited(m)
    \/ \E m \in Msgs : InvokeTransient(m)
    \/ \E m \in Msgs : InvokeNonRetryable(m)

FairSpecInvoke == SpecInvoke /\ WF_vars(ModelCallCompletes)

\* ------------------------------------------- ReaderAgent / AnalystAgent

\* What the debaters' and the analyst's model calls can do.
DebateTexts == {"t1"}
DebateMsgs == { {"quota"}, {"429"}, {"rate", "limit"}, {"timeout"}, {} }
\* The payload of an extractor response that parses to an object: a graph of
\* one node and one edge, empty lists, no "nodes" / "edges" member, a null
\* "nodes" member.
Graphs == {"empty", "graph", "missing", "null_nodes"}
\* The extractor responses that do not parse: no fence and no JSON, or a
\* payload cut short.
Malformed == {"unparseable", "truncated"}

PayloadNode == RawNodeOf(Some(<<"a">>), Some(<<"A", " ">>), Some("technique"), NoText)
PayloadEdge == RawEdgeOf(Some(<<"a">>), Some(<<"a">>), Some("causes"), Some("causes"))

\* data = json.loads(json_str.strip())
Data(g) ==
    CASE g = "graph" ->
           [has |-> {"nodes", "edges"}, nodes |-> JList(<<PayloadNode>>),
            edges |-> JList(<<PayloadEdge>>)]
      [] g = "missing" ->
           [has |-> {}, nodes |-> JList(<<>>), edges |-> JList(<<>>)]
      [] g = "null_nodes" ->
           [has |-> {"nodes", "edges"}, nodes |-> JNull, edges |-> JList(<<>>)]
      [] OTHER ->
           [has |-> {"nodes", "edges"}, nodes |-> JList(<<>>), edges |-> JList(<<>>)]

\* data.get(key, [])
data_get(data, key) == IF key \in data.has THEN data[key] ELSE JList(<<>>)

\* return data.get('nodes', []), data.get('edges', [])
RawPair(g) == [nodes |-> data_get(Data(g), "nodes"), edges |-> data_get(Data(g), "edges")]

\* return f"[{self.name} ..."  (the 'could not respond' string)
Sentinel(a) == "[" \o a \o " could not respond]"

\* ReaderAgent.respond, the except branch:
\* if "429" in str(e) or "quota" in str(e).lower(): ... else: raise e
classify_respond(msg) ==
    IF "429" \in msg \/ "quota" \in msg THEN "rate_limit" ELSE "raise"

\* A _refresh_key that excludes the key that was rate-limited.
refresh_key_marking(ks, idx, failed, bound) ==
    LET m == mark_failed(bound, idx, failed)
        g == get_key(ks, m.index, m.failed)
    IN  [index |-> m.index, failed |-> g.failed, llm |-> g.key]

\* ReaderAgent._refresh_key / AnalystAgent._refresh_key:
\* settings.rotate_api_key(); api_key = settings.get_api_key(); rebuild _llm
refresh_key(ks, idx, failed, bound) ==
    LET i2 == rotate(idx)
        g == get_key(ks, i2, failed)
    IN  [index |-> i2, failed |-> g.failed, llm |-> g.key]

\* A respond that raises once its retries are used up.
AfterRespondRateLimit_raises(c, entry) ==
    [c EXCEPT !.attempt = c.attempt + 1,
              !.log = Append(c.log, entry),
              !.status = IF c.attempt + 1 < c.max_retries THEN "running" ELSE "raised",
              !.result = IF c.attempt + 1 < c.max_retries THEN NoResult
                         ELSE RateLimitError]

\* The loop of respond after a rate-limited attempt: range(max_retries) goes
\* on, or is exhausted and the sentinel after the loop is returned.
AfterRespondRateLimit(c, entry) ==
    [c EXCEPT !.attempt = c.attempt + 1,
              !.log = Append(c.log, entry),
              !.status = IF c.attempt + 1 < c.max_retries THEN "running" ELSE "returned",
              !.result = IF c.attempt + 1 < c.max_retries THEN NoResult
                         ELSE TextResult(Sentinel(c.agent))]

\* respond(topic, conversation) is entered by debater a (max_retries = 3).
StartRespond(a) ==
    [kind |-> "respond", agent |-> a, max_retries |-> DefaultMaxRetries,
     attempt |-> 0, status |-> "running", result |-> NoResult, log |-> <<>>]

\* analyze_and_extract(topic, conversation) is entered (max_retries = 3).
StartAnalyze ==
    [kind |-> "analyze", agent |-> "Analyst", max_retries |-> DefaultMaxRetries,
     attempt |-> 0, status |-> "running", result |-> NoResult, log |-> <<>>]

Responding == call.kind = "respond" /\ call.status = "running"

\* response = self._llm.invoke(formatted); return response.content
RespondReturn(t) ==
    /\ Responding
    /\ LET a == call.agent
           e == LogEntry(llm_key[a], TRUE, t, {}, current_index, current_index,
                         llm_key[a], 0)
       IN  call' = [call EXCEPT !.status = "returned", !.result = TextResult(t),
                                !.log = Append(call.log, e)]
    /\ UNCHANGED <<keys, current_index, failed_keys, last, llm_key, debateVars, libVars>>

\* except: 429 / quota -> self._refresh_key(); time.sleep(2)
RespondRateLimited(m) ==
    /\ Responding
    /\ classify_respond(m) = "rate_limit"
    /\ current_index < MaxIndex
    /\ LET a == call.agent
           r == refresh_key(keys, current_index, failed_keys, llm_key[a])
           e == LogEntry(llm_key[a], FALSE, "", m, current_index, r.index, r.llm,
                         RespondSleep)
       IN  /\ current_index' = r.index
           /\ failed_keys' = r.failed
           /\ llm_key' = [llm_key EXCEPT ![a] = r.llm]
           /\ call' = AfterRespondRateLimit(call, e)
    /\ UNCHANGED <<keys, last, debateVars, libVars>>

\* except: anything else -> raise e
RespondRaise(m) ==
    /\ Responding
    /\ classify_respond(m) = "raise"
    /\ LET a == call.agent
           e == LogEntry(llm_key[a], FALSE, "", m, current_index, current_index,
                         llm_key[a], 0)
       IN  call' = [call EXCEPT !.status = "raised", !.result = Reraised(m),
                                !.log = Append(call.log, e)]
    /\ UNCHANGED <<keys, current_index, failed_keys, last, llm_key, debateVars, libVars>>

\* The result of analyze_and_extract: (raw_nodes, raw_edges), here the payload.
GraphResult(g) == [type |-> "graph", text |-> g, msg |-> {}]

\* A backoff that does not grow with the attempt.
analyze_backoff_flat(attempt) == 15

\* wait_time = (attempt + 1) * 15
analyze_backoff(attempt) == (attempt + 1) * 15

\* A loop that raises when its attempts are used up.
AfterAnalyzeRetry_raises(c, entry) ==
    [c EXCEPT !.attempt = c.attempt + 1,
              !.log = Append(c.log, entry),
              !.status = IF c.attempt + 1 < c.max_retries THEN "running" ELSE "raised",
              !.result = IF c.attempt + 1 < c.max_retries THEN NoResult
                         ELSE RateLimitError]

\* The loop of analyze_and_extract after a parse error or a rate limit:
\* range(max_retries) goes on, or is exhausted and "return [], []" follows.
AfterAnalyzeRetry(c, entry) ==
    [c EXCEPT !.attempt = c.attempt + 1,
              !.log = Append(c.log, entry),
              !.status = IF c.attempt + 1 < c.max_retries THEN "running" ELSE "returned",
              !.result = IF c.attempt + 1 < c.max_retries THEN NoResult
                         ELSE GraphResult("empty")]

Analyzing == call.kind = "analyze" /\ call.status = "running"

\* data = json.loads(...); return data.get('nodes', []), data.get('edges', [])
AnalyzeParsed(g) ==
    /\ Analyzing
    /\ LET e == LogEntry(llm_key["Analyst"], TRUE, g, {}, current_index,
                         current_index, llm_key["Analyst"], 0)
       IN  call' = [call EXCEPT !.status = "returned", !.result = GraphResult(g),
                                !.log = Append(call.log, e)]
    /\ UNCHANGED <<keys, current_index, failed_keys, last, llm_key, debateVars, libVars>>

\* except json.JSONDecodeError: continue
AnalyzeJsonError(t) ==
    /\ Analyzing
    /\ LET e == LogEntry(llm_key["Analyst"], TRUE, t, {}, current_index,
                         current_index, llm_key["Analyst"], 0)
       IN  call' = AfterAnalyzeRetry(call, e)
    /\ UNCHANGED <<keys, current_index, failed_keys, last, llm_key, debateVars, libVars>>

\* except Exception: 429 / quota -> sleep((attempt + 1) * 15); _refresh_key()
AnalyzeRateLimited(m) ==
    /\ Analyzing
    /\ classify_respond(m) = "rate_limit"
    /\ current_index < MaxIndex
    /\ LET r == refresh_key(keys, current_index, failed_keys, llm_key["Analyst"])
           e == LogEntry(llm_key["Analyst"], FALSE, "", m, current_index, r.index,
                         r.llm, analyze_backoff(call.attempt))
       IN  /\ current_index' = r.index
           /\ failed_keys' = r.failed
           /\ llm_key' = [llm_key EXCEPT !["Analyst"] = r.llm]
           /\ call' = AfterAnalyzeRetry(call, e)
    /\ UNCHANGED <<keys, last, debateVars, libVars>>

\* An analyze_and_extract that goes on to the next attempt after any failure.
AnalyzeOtherError_retries(m) ==
    /\ Analyzing
    /\ classify_respond(m) = "raise"
    /\ LET e == LogEntry(llm_key["Analyst"], FALSE, "", m, current_index,
                         current_index, llm_key["Analyst"], 0)
       IN  call' = AfterAnalyzeRetry(call, e)
    /\ UNCHANGED <<keys, current_index, failed_keys, last, llm_key, debateVars, libVars>>

\* except Exception: anything else -> return [], []
AnalyzeOtherError(m) ==
    /\ Analyzing
    /\ classify_respond(m) = "raise"
    /\ LET e == LogEntry(llm_key["Analyst"], FALSE, "", m, current_index,
                         current_index, llm_key["Analyst"], 0)
       IN  call' = [call EXCEPT !.status = "returned",
                                !.result = GraphResult("empty"),
                                !.log = Append(call.log, e)]
    /\ UNCHANGED <<keys, current_index, failed_keys, last, llm_key, debateVars, libVars>>

NoPool ==
    /\ PoolInit(<<>>)
    /\ llm_key = [a \in Agents |-> NoKey]
    /\ call = NoCall

InitNormalize ==
    /\ \E b \in Batches \cup NullBatches :
          /\ raw_nodes = b.rn
          /\ raw_edges = b.re
    /\ schema = NoSchema
    /\ NoPool
    /\ NoDebate
    /\ NoBatch
    /\ NoStore
    /\ NoUI
    /\ NoThreads
    /\ NoSlugs
    /\ NoEnrich
    /\ NoTally
    /\ NoQueue
    /\ NoExtract

\* self.analyst.convert_to_schema(raw_nodes, raw_edges, source)
AnalystConvert ==
    /\ schema.by = "none"
    /\ schema' = SchemaOf("Analyst", Analyst_convert_to_schema(raw_nodes, raw_edges, Source))
    /\ UNCHANGED <<poolVars, extractVars, threadVars, slugVars, enrichVars, tallyVars, queueVars, llm_key, call, debateVars, raw_nodes, raw_edges,
                   batchVars, storeVars, uiVars>>

\* self.cartographer.convert_to_schema(nodes, edges, source_book)
CartographerConvert ==
    /\ schema.by = "none"
    /\ schema' = SchemaOf("Cartographer",
                          Cartographer_convert_to_schema(raw_nodes, raw_edges, Source))
    /\ UNCHANGED <<poolVars, extractVars, threadVars, slugVars, enrichVars, tallyVars, queueVars, llm_key, call, debateVars, raw_nodes, raw_edges,
                   batchVars, storeVars, uiVars>>

NextNormalize == AnalystConvert \/ CartographerConvert

SpecNormalize == InitNormalize /\ [][NextNormalize]_vars

\* The normalizers over the closed vocabulary: one raw node typed with a
\* NodeType value and one raw edge labelled, under "type" and under
\* "relation", with an EdgeType value.
InitVocabulary ==
    /\ \E nt \in NodeType, et \in EdgeType :
          /\ raw_nodes = JList(<<RawNodeOf(Some(<<"a">>), Some(<<"A">>), Some(nt), NoText)>>)
          /\ raw_edges = JList(<<RawEdgeOf(Some(<<"a">>), Some(<<"a">>), Some(et), Some(et))>>)
    /\ schema = NoSchema
    /\ NoPool
    /\ NoDebate
    /\ NoBatch
    /\ NoStore
    /\ NoUI
    /\ NoThreads
    /\ NoSlugs
    /\ NoEnrich
    /\ NoTally
    /\ NoQueue
    /\ NoExtract

SpecVocabulary == InitVocabulary /\ [][NextNormalize]_vars

\* ---------------------------------------------- EnhancedDebateSystem.run_debate

\* A round loop that hands every round to the analyst.
next_step_every_round(who, rn, R, strategist) ==
    IF who = "Attacker" THEN [pc |-> "Defender", round |-> rn]
    ELSE IF who = "Defender" /\ strategist THEN [pc |-> "Strategist", round |-> rn]
    ELSE [pc |-> "Analyst", round |-> rn + 1]

\* run_debate's control flow after the turn of `who` in round rn (0-based) of
\* R: attacker, defender, strategist if enabled, next round; after the last
\* round the analyst.
next_step(who, rn, R, strategist) ==
    IF who = "Attacker" THEN [pc |-> "Defender", round |-> rn]
    ELSE IF who = "Defender" /\ strategist THEN [pc |-> "Strategist", round |-> rn]
    ELSE IF rn + 1 < R THEN [pc |-> "Attacker", round |-> rn + 1]
    ELSE [pc |-> "Analyst", round |-> rn + 1]

\* stream_debate's control flow after the turn of `who` in round rn: attacker,
\* defender, strategist if enabled, then the analyst, in every round.
stream_step(who, rn, R, strategist) ==
    IF who = "Attacker" THEN [pc |-> "Defender", round |-> rn]
    ELSE IF who = "Defender" /\ strategist THEN [pc |-> "Strategist", round |-> rn]
    ELSE [pc |-> "Analyst", round |-> rn]

\* The call run_debate makes when it gets to `where`.
CallAt(where) == IF where = "Analyst" THEN StartAnalyze ELSE StartRespond(where)

\* The analyst is handed the transcript conv.
Extracted(where, conv) ==
    IF where = "Analyst" THEN Append(extractions, [turns |-> Len(conv)])
    ELSE extractions

\* conversation_history[-4:]
last_turns(history) ==
    SubSeq(history,
           IF Len(history) > HistoryWindow THEN Len(history) - HistoryWindow + 1 ELSE 1,
           Len(history))

\* f"{msg['agent']}: {msg['content']}"
format_turn(msg) == msg.agent \o ": " \o msg.content

\* "\n".join(lines)
RECURSIVE join_lines(_)
join_lines(lines) ==
    IF lines = <<>> THEN ""
    ELSE IF Len(lines) = 1 THEN lines[1]
    ELSE lines[1] \o "\n" \o join_lines(Tail(lines))

\* The string respond uses when conversation_history is empty.
NewDebate == "new debate"

\* A conversation block that holds the whole transcript.
conv_text_whole(history) ==
    IF history = <<>> THEN NewDebate
    ELSE join_lines([i \in 1..Len(history) |-> format_turn(history[i])])

\* ReaderAgent.respond: conv_text, the conversation block of the prompt
conv_text(history) ==
    IF history = <<>> THEN NewDebate
    ELSE join_lines([i \in 1..Len(last_turns(history)) |->
                        format_turn(last_turns(history)[i])])

\* The conversation block respond builds for a debater; the agents of
\* debate_topic do not go through respond.
BlockFor(where, conv) == IF where \in Debaters THEN conv_text(conv) ELSE ""

\* A debater that hands its own turn back to itself as the history.
HandedTo_stale(h, where, conv) ==
    IF where = "Analyst" THEN h
    ELSE Append(h, [agent |-> where,
                    history |-> IF conv = <<>> THEN conv
                                ELSE SubSeq(conv, 1, Len(conv) - 1),
                    conv_text |-> BlockFor(where, conv)])

\* respond(topic, conversation): the debater `where` is handed conv.
HandedTo(h, where, conv) ==
    IF where = "Analyst" THEN h
    ELSE Append(h, [agent |-> where, history |-> conv,
                    conv_text |-> BlockFor(where, conv)])

\* The dicts stream_debate yields.
Event(type, agent, content) ==
    [type |-> type, agent |-> agent, content |-> content, nodes |-> <<>>,
     edges |-> <<>>, conversation |-> <<>>]
GraphUpdate(ns, es) ==
    [type |-> "graph_update", agent |-> "", content |-> "", nodes |-> ns,
     edges |-> es, conversation |-> <<>>]
\* A complete event that carries no transcript.
Complete_bare(conv) ==
    [type |-> "complete", agent |-> "", content |-> "", nodes |-> <<>>,
     edges |-> <<>>, conversation |-> <<>>]
Complete(conv) ==
    [type |-> "complete", agent |-> "", content |-> "", nodes |-> <<>>,
     edges |-> <<>>, conversation |-> conv]

NoOutcome == [status |-> "none", nodes |-> <<>>, edges |-> <<>>]
Returned(r) == [status |-> "returned", nodes |-> r.nodes, edges |-> r.edges]

\* run_debate(topic, rounds=R): conversation = []; the first agent is called.
RunDebate(R) ==
    /\ pc = "idle"
    /\ mode' = "run"
    /\ rounds' = R
    /\ round_num' = 0
    /\ conversation' = <<>>
    /\ LET where == IF R > 0 THEN "Attacker" ELSE "Analyst"
       IN  /\ pc' = where
           /\ call' = CallAt(where)
           /\ extractions' = Extracted(where, <<>>)
           /\ handed' = HandedTo(<<>>, where, <<>>)
    /\ UNCHANGED <<keys, current_index, failed_keys, last, llm_key, enable_strategist,
                   events, result, libVars>>

\* stream_debate(topic, rounds=R), run to its first model call: start, and
\* either the first round's info and thinking, or complete at once.
StreamDebate(R) ==
    /\ pc = "idle"
    /\ mode' = "stream"
    /\ rounds' = R
    /\ round_num' = 0
    /\ conversation' = <<>>
    /\ IF R > 0
       THEN /\ events' = <<Event("start", "", ""), Event("info", "", ""),
                           Event("thinking", "Attacker", "")>>
            /\ pc' = "Attacker"
            /\ call' = StartRespond("Attacker")
            /\ handed' = HandedTo(<<>>, "Attacker", <<>>)
       ELSE /\ events' = <<Event("start", "", ""), Complete(<<>>)>>
            /\ pc' = "done"
            /\ UNCHANGED <<call, handed>>
    /\ UNCHANGED <<keys, current_index, failed_keys, last, llm_key, enable_strategist,
                   extractions, result, libVars>>

\* respond returned: conversation.append({agent, content}); in stream_debate
\* the message is yielded; sleep(delay); the next agent (or the analyst) is
\* called, in stream_debate after its thinking is yielded.
TurnAppend ==
    /\ pc \in Debaters
    /\ call.kind = "respond"
    /\ call.status = "returned"
    /\ LET conv == Append(conversation, [agent |-> pc, content |-> call.result.text])
           n == IF mode = "stream"
                THEN stream_step(pc, round_num, rounds, enable_strategist)
                ELSE next_step(pc, round_num, rounds, enable_strategist)
       IN  /\ conversation' = conv
           /\ pc' = n.pc
           /\ round_num' = n.round
           /\ call' = CallAt(n.pc)
           /\ extractions' = Extracted(n.pc, conv)
           /\ handed' = HandedTo(handed, n.pc, conv)
           /\ events' = IF mode = "stream"
                        THEN events \o <<Event("message", pc, call.result.text),
                                         Event("thinking", n.pc, "")>>
                        ELSE events
    /\ UNCHANGED <<keys, current_index, failed_keys, last, llm_key, enable_strategist,
                   rounds, mode, result, libVars>>

\* respond raised: nothing in run_debate / stream_debate catches it.
DebateRaise ==
    /\ pc \in Debaters
    /\ call.kind = "respond"
    /\ call.status = "raised"
    /\ pc' = "raised"
    /\ UNCHANGED <<keys, current_index, failed_keys, last, llm_key, call,
                   enable_strategist, rounds, round_num, conversation, extractions,
                   mode, handed, events, result, libVars>>

\* What analyze_and_extract returned, normalized by the analyst.
AnalystSchema == Analyst_convert_to_schema(RawPair(call.result.text).nodes,
                                           RawPair(call.result.text).edges, Source)

\* run_debate after analyze_and_extract returned: convert_to_schema, which may
\* raise, then return the result dict.
DebateReturn ==
    /\ pc = "Analyst"
    /\ mode = "run"
    /\ call.kind = "analyze"
    /\ call.status = "returned"
    /\ IF AnalystSchema.raised
       THEN pc' = "raised" /\ result' = result
       ELSE pc' = "done" /\ result' = Returned(AnalystSchema)
    /\ UNCHANGED <<keys, current_index, failed_keys, last, llm_key, call,
                   enable_strategist, rounds, round_num, conversation, extractions,
                   mode, handed, events, libVars>>

\* stream_debate after analyze_and_extract returned: convert_to_schema, which
\* may raise, then graph_update is yielded, and either the next round's info
\* and thinking before the attacker is called, or complete.
StreamGraphUpdate ==
    /\ pc = "Analyst"
    /\ mode = "stream"
    /\ call.kind = "analyze"
    /\ call.status = "returned"
    /\ IF AnalystSchema.raised
       THEN /\ pc' = "raised"
            /\ UNCHANGED <<round_num, call, handed, events>>
       ELSE /\ round_num' = round_num + 1
            /\ IF round_num + 1 < rounds
               THEN /\ events' = events \o
                           <<GraphUpdate(AnalystSchema.nodes, AnalystSchema.edges),
                             Event("info", "", ""), Event("thinking", "Attacker", "")>>
                    /\ pc' = "Attacker"
                    /\ call' = StartRespond("Attacker")
                    /\ handed' = HandedTo(handed, "Attacker", conversation)
               ELSE /\ events' = events \o
                           <<GraphUpdate(AnalystSchema.nodes, AnalystSchema.edges),
                             Complete(conversation)>>
                    /\ pc' = "done"
                    /\ UNCHANGED <<call, handed>>
    /\ UNCHANGED <<keys, current_index, failed_keys, last, llm_key, enable_strategist,
                   rounds, conversation, extractions, mode, result, libVars>>

\* ------------------------------------------------ DebateOrchestrator.debate_topic

\* self.invoke(prompt) with the default max_retries
StartInvoke(a) ==
    [kind |-> "invoke", agent |-> a, max_retries |-> DefaultMaxRetries,
     attempt |-> 0, status |-> "running", result |-> NoResult, log |-> <<>>]

\* debate_topic(topic, content): messages = []; predator.analyze_offensive
DebateTopic ==
    /\ pc = "idle"
    /\ mode' = "topic"
    /\ pc' = "Predator"
    /\ conversation' = <<>>
    /\ call' = StartInvoke("Predator")
    /\ handed' = HandedTo(<<>>, "Predator", <<>>)
    /\ UNCHANGED <<keys, current_index, failed_keys, last, llm_key, enable_strategist,
                   rounds, round_num, extractions, events, result, libVars>>

\* invoke returned: messages.append(DebateMessage(...)); sleep; then
\* guardian.counter_argument(predator_msg, topic), or
\* cartographer.extract_from_debate(topic, predator_msg, guardian_msg).
TopicAppend ==
    /\ mode = "topic"
    /\ pc \in {"Predator", "Guardian"}
    /\ call.kind = "invoke"
    /\ call.status = "returned"
    /\ LET conv == Append(conversation, [agent |-> pc, content |-> call.result.text])
           where == IF pc = "Predator" THEN "Guardian" ELSE "Cartographer"
       IN  /\ conversation' = conv
           /\ pc' = where
           /\ call' = StartInvoke(where)
           /\ handed' = IF where = "Guardian" THEN HandedTo(handed, where, conv)
                        ELSE handed
           /\ extractions' = IF where = "Cartographer"
                             THEN Append(extractions, [turns |-> Len(conv)])
                             ELSE extractions
    /\ UNCHANGED <<keys, current_index, failed_keys, last, llm_key, enable_strategist,
                   rounds, round_num, mode, events, result, libVars>>

\* invoke raised (RateLimitError, or the error re-raised): nothing in
\* debate_topic catches it.
TopicRaise ==
    /\ mode = "topic"
    /\ pc \in {"Predator", "Guardian", "Cartographer"}
    /\ call.kind = "invoke"
    /\ call.status = "raised"
    /\ pc' = "raised"
    /\ UNCHANGED <<keys, current_index, failed_keys, last, llm_key, call,
                   enable_strategist, rounds, round_num, conversation, extractions,
                   mode, handed, events, result, libVars>>

\* _parse_json_response(response): the payload's members if a JSON object is
\* found and parses, else [], [].
parse_json_response(response) ==
    IF response \in Graphs THEN RawPair(response) ELSE RawPair("empty")

\* What extract_from_debate returned, normalized by the cartographer.
CartographerSchema ==
    Cartographer_convert_to_schema(parse_json_response(call.result.text).nodes,
                                   parse_json_response(call.result.text).edges, Source)

\* The cartographer's invoke returned: _parse_json_response, convert_to_schema
\* (which may raise), debate_history.append(session), return session.
TopicExtract ==
    /\ mode = "topic"
    /\ pc = "Cartographer"
    /\ call.kind = "invoke"
    /\ call.status = "returned"
    /\ IF CartographerSchema.raised
       THEN pc' = "raised" /\ result' = result
       ELSE pc' = "done" /\ result' = Returned(CartographerSchema)
    /\ UNCHANGED <<keys, current_index, failed_keys, last, llm_key, call,
                   enable_strategist, rounds, round_num, conversation, extractions,
                   mode, handed, events, libVars>>

\* EnhancedDebateSystem.__init__ and the singleton agents over the fresh pool:
\* every agent's _init_llm binds its client to settings.get_api_key().
InitDebate ==
    /\ \E ks \in DistinctKeyLists, st \in BOOLEAN :
          /\ PoolInit(ks)
          /\ enable_strategist = st
          /\ llm_key = [a \in Agents |->
                          IF a = "Strategist" /\ ~st THEN NoKey
                          ELSE get_key(ks, 0, {}).key]
    /\ call = NoCall
    /\ rounds = 0
    /\ round_num = 0
    /\ conversation = <<>>
    /\ pc = "idle"
    /\ extractions = <<>>
    /\ mode = "none"
    /\ handed = <<>>
    /\ events = <<>>
    /\ result = NoOutcome
    /\ NoLib

\* The steps of respond and analyze_and_extract, shared by run_debate and
\* stream_debate.
AgentSteps ==
    \/ \E t \in DebateTexts : RespondReturn(t)
    \/ \E m \in DebateMsgs : RespondRateLimited(m)
    \/ \E m \in DebateMsgs : RespondRaise(m)
    \/ TurnAppend
    \/ DebateRaise
    \/ \E g \in Graphs : AnalyzeParsed(g)
    \/ \E t \in Malformed : AnalyzeJsonError(t)
    \/ \E m \in DebateMsgs : AnalyzeRateLimited(m)
    \/ \E m \in DebateMsgs : AnalyzeOtherError(m)

NextDebate ==
    \/ \E R \in 0..MaxRounds : RunDebate(R)
    \/ AgentSteps
    \/ DebateReturn

SpecDebate == InitDebate /\ [][NextDebate]_vars

NextStream ==
    \/ \E R \in 0..MaxRounds : StreamDebate(R)
    \/ AgentSteps
    \/ StreamGraphUpdate

SpecStream == InitDebate /\ [][NextStream]_vars

\* The texts an agent of debate_topic gets from the model.
TopicTexts(a) == IF a = "Cartographer" THEN Graphs \cup Malformed ELSE DebateTexts

NextTopic ==
    \/ DebateTopic
    \/ \E t \in TopicTexts(call.agent) : InvokeReturn(t) /\ mode = "topic"
    \/ \E m \in DebateMsgs : InvokeRateLimited(m) /\ mode = "topic"
    \/ \E m \in DebateMsgs : InvokeTransient(m) /\ mode = "topic"
    \/ \E m \in DebateMsgs : InvokeNonRetryable(m) /\ mode = "topic"
    \/ TopicAppend
    \/ TopicRaise
    \/ TopicExtract

SpecTopic == InitDebate /\ [][NextTopic]_vars

\* The three orchestrators over one pool.
NextOrchestrate == NextDebate \/ NextStream \/ NextTopic

SpecOrchestrate == InitDebate /\ [][NextOrchestrate]_vars

\* ------------------------- run_batch_debates and auto_debate_top_topics

\* The payloads the extractor of a topic's debate comes back with.
TopicNodes == {RawNodeOf(Some(<<"a">>), NoText, NoLabel, NoText),
               RawNodeOf(Some(<<"A">>), NoText, NoLabel, NoText)}
TopicEdges == {RawEdgeOf(Some(<<"a">>), Some(<<"A">>), NoLabel, NoLabel)}
TopicPayloads ==
    {[nodes |-> JList(ns), edges |-> JList(es)] :
         ns \in {<<>>} \cup {<<n>> : n \in TopicNodes},
         es \in {<<>>} \cup {<<e>> : e \in TopicEdges}}
    \cup {[nodes |-> JNull, edges |-> JList(<<>>)]}

\* What the debate of a topic gives the batch loop: it raises, or returns the
\* normalized extraction.
TopicRaised(error) ==
    [raised |-> TRUE, error |-> error, nodes |-> <<>>, edges |-> <<>>]
TopicReturned(r) ==
    [raised |-> FALSE, error |-> "none", nodes |-> r.nodes, edges |-> r.edges]

\* What a debate raises: run_debate the error a debater's respond re-raised
\* and convert_to_schema's TypeError; debate_topic also the RateLimitError of
\* an invoke that used up its retries.
TopicErrors(loop) ==
    IF loop = "run_batch_debates" THEN {"Exception", "TypeError"}
    ELSE {"RateLimitError", "Exception", "TypeError"}

\* What run_debate (in run_batch_debates) or debate_topic (in
\* auto_debate_top_topics) gives for a topic.
TopicOutcomes(loop) ==
    {TopicRaised(e) : e \in TopicErrors(loop)}
    \cup {LET r == IF loop = "run_batch_debates"
                   THEN Analyst_convert_to_schema(g.nodes, g.edges, Source)
                   ELSE Cartographer_convert_to_schema(g.nodes, g.edges, Source)
          IN  IF r.raised THEN TopicRaised("TypeError") ELSE TopicReturned(r) :
              g \in TopicPayloads}

\* A loop whose failing topic takes what was accumulated with it.
extend_or_reset(acc, o, items) == IF o.raised THEN <<>> ELSE acc \o items

\* try: result = ...; all_nodes.extend(...) except Exception: continue
extend(acc, o, items) == IF o.raised THEN acc ELSE acc \o items

\* all_nodes = []; all_edges = []; the loop is entered over n topics
StartBatch(loop, n) ==
    /\ batch = "none"
    /\ batch' = loop
    /\ topics' = n
    /\ all_nodes' = <<>>
    /\ all_edges' = <<>>
    /\ topics_done' = <<>>
    /\ batch_result' = NoBatchResult
    /\ UNCHANGED <<poolVars, extractVars, threadVars, slugVars, enrichVars, tallyVars, queueVars, llm_key, call, debateVars, normVars, storeVars, uiVars>>

\* One pass of the loop: try: the debate; all_nodes.extend(...);
\* all_edges.extend(...) except Exception: continue
BatchTopic(o) ==
    /\ batch # "none"
    /\ batch_result.status = "none"
    /\ Len(topics_done) < topics
    /\ topics_done' = Append(topics_done, o)
    /\ all_nodes' = extend(all_nodes, o, o.nodes)
    /\ all_edges' = extend(all_edges, o, o.edges)
    /\ UNCHANGED <<poolVars, extractVars, threadVars, slugVars, enrichVars, tallyVars, queueVars, llm_key, call, debateVars, normVars, batch, topics,
                   batch_result, storeVars, uiVars>>

\* The loop is over: return all_nodes, all_edges
BatchReturn ==
    /\ batch # "none"
    /\ batch_result.status = "none"
    /\ Len(topics_done) = topics
    /\ batch_result' = [status |-> "returned", nodes |-> all_nodes, edges |-> all_edges]
    /\ UNCHANGED <<poolVars, extractVars, threadVars, slugVars, enrichVars, tallyVars, queueVars, llm_key, call, debateVars, normVars, all_nodes, all_edges,
                   batch, topics_done, topics, storeVars, uiVars>>

InitBatch ==
    /\ NoPool
    /\ NoDebate
    /\ NoLib

NextBatch ==
    \/ \E loop \in {"run_batch_debates", "auto_debate_top_topics"}, n \in 0..MaxTopics :
          StartBatch(loop, n)
    \/ \E o \in TopicOutcomes(batch) : BatchTopic(o)
    \/ BatchReturn

SpecBatch == InitBatch /\ [][NextBatch]_vars

\* ------------------------------ BaseGraphExtractor.nodes and the Neo4j nodes

\* The nodes written to the stores.
StoreNodes ==
    {GraphNode(i, <<"A">>, "concept", d, sb) :
         i \in {<<"a">>, <<"a", "a">>}, d \in {None, <<"a">>, <<"A">>},
         sb \in {None, Source}}
StoreBatches ==
    {<<n>> : n \in StoreNodes} \cup {<<n, m>> : n \in StoreNodes, m \in StoreNodes}

\* if node.id not in self.nodes: self.nodes[node.id] = node
add_node(ns, node) ==
    IF \E i \in 1..Len(ns) : ns[i].id = node.id THEN ns ELSE Append(ns, node)

\* MERGE (n:Node {id: $id}) SET n.name = $name, n.type = $type,
\* n.description = $description, n.source_book = $source_book: every property
\* is set to the parameter, a null parameter removes the property.
upsert(d, node) == {r \in d : r.id # node.id} \cup {node}

RECURSIVE upsert_all(_, _)
upsert_all(d, ns) == IF ns = <<>> THEN d ELSE upsert_all(upsert(d, Head(ns)), Tail(ns))

\* BaseGraphExtractor._add_node(node)
AddNode(node) ==
    /\ nodes' = add_node(nodes, node)
    /\ UNCHANGED <<poolVars, extractVars, threadVars, slugVars, enrichVars, tallyVars, queueVars, llm_key, call, debateVars, normVars, batchVars, db, db_edges,
                   uiVars>>

\* Neo4jClient.create_node(node)
CreateNode(node) ==
    /\ db' = upsert(db, node)
    /\ UNCHANGED <<poolVars, extractVars, threadVars, slugVars, enrichVars, tallyVars, queueVars, llm_key, call, debateVars, normVars, batchVars, nodes,
                   db_edges, uiVars>>

\* Neo4jClient.create_nodes_batch(nodes): UNWIND $nodes AS node MERGE ... SET ...
CreateNodesBatch(ns) ==
    /\ db' = upsert_all(db, ns)
    /\ UNCHANGED <<poolVars, extractVars, threadVars, slugVars, enrichVars, tallyVars, queueVars, llm_key, call, debateVars, normVars, batchVars, nodes,
                   db_edges, uiVars>>

InitStore ==
    /\ NoPool
    /\ NoDebate
    /\ NoLib

NextStore ==
    \/ \E n \in StoreNodes : AddNode(n)
    \/ \E n \in StoreNodes : CreateNode(n)
    \/ \E ns \in StoreBatches : CreateNodesBatch(ns)

SpecStore == InitStore /\ [][NextStore]_vars

\* ---------------------------------------------- debate_ui.py: the stream loop

\* A loop that lets the turn it has announced start whatever the flag says.
checked_but_thinking(flag, type) ==
    IF ~flag /\ type # "thinking" THEN "stopped" ELSE "streaming"

\* for event in system.stream_debate(...):
\*     if not st.session_state.single_running: break
checked(flag, type) == IF ~flag THEN "stopped" ELSE "streaming"

\* MATCH (a:Node {id: $source}) MATCH (b:Node {id: $target})
\* MERGE (a)-[r:RELATES {type: $type}]->(b): nothing is written unless both
\* ends are stored.
create_edge(d, es, e) ==
    IF (\E r \in d : r.id = e.source) /\ (\E r \in d : r.id = e.target)
    THEN es \cup {[source |-> e.source, target |-> e.target, type |-> e.type]}
    ELSE es

RECURSIVE create_edges(_, _, _)
create_edges(d, es, edges) ==
    IF edges = <<>> THEN es
    ELSE create_edges(d, create_edge(d, es, Head(edges)), Tail(edges))

\* save_debate(topic, messages, rounds, node_count, edge_count): one row of
\* the debates table
save_debate(sv, topic, m, r, nc, ec) ==
    Append(sv, [topic |-> topic, messages |-> m, rounds |-> r, node_count |-> nc,
                edge_count |-> ec])

SingleTopic == "T0"     \* the topic typed in the first tab

\* The first tab after its loop: if st.session_state.single_messages:
\* save_debate(...)
after_single(sv, m, r, nc, ec) ==
    IF m > 0 THEN save_debate(sv, SingleTopic, m, r, nc, ec) ELSE sv

\* save_completed(topic): one line appended to the completed-topics file
save_completed(log, topic) == Append(log, topic)

\* The queue loop of the second tab is inside a topic.
InQueue == auto_i > 0

Attempt(topic, how, final) == [topic |-> topic, how |-> how, final |-> final]

\* The code that follows the loop over the stream, which ended by the break,
\* by the generator's exhaustion or by an exception (final is the event the
\* loop received last). First tab: the debate is saved if it has messages,
\* nothing is saved in the except branch. Second tab: save_debate and
\* save_completed follow the loop inside the try, the except branch only
\* reports, and the queue goes on.
AfterLoop(how, final) ==
    IF InQueue
    THEN /\ ui' = "queue"
         /\ attempted' = [attempted EXCEPT ![auto_i] = Attempt(pending[auto_i], how, final)]
         /\ IF how = "except"
            THEN UNCHANGED <<saved, completed_log>>
            ELSE /\ saved' = save_debate(saved, pending[auto_i], messages, rounds,
                                         node_count, edge_count)
                 /\ completed_log' = save_completed(completed_log, pending[auto_i])
    ELSE /\ ui' = CASE how = "break" -> "stopped"
                    [] how = "exhausted" -> "finished"
                    [] OTHER -> "failed"
         /\ saved' = IF how = "except" THEN saved
                     ELSE after_single(saved, messages, rounds, node_count, edge_count)
         /\ UNCHANGED <<completed_log, attempted>>

\* The start button: single_running = True; the rerun enters the loop over
\* system.stream_debate(topic, rounds, delay), a generator not yet started.
UIStart(R) ==
    /\ ui = "idle"
    /\ pc = "idle"
    /\ running' = TRUE
    /\ ui' = "streaming"
    /\ paused' = "created"
    /\ mode' = "stream"
    /\ rounds' = R
    /\ round_num' = 0
    /\ conversation' = <<>>
    /\ events' = <<>>
    /\ node_count' = 0
    /\ edge_count' = 0
    /\ messages' = 0
    /\ UNCHANGED saved
    /\ UNCHANGED <<poolVars, extractVars, threadVars, slugVars, enrichVars, queueVars, llm_key, call, enable_strategist, pc, extractions, handed,
                   result, normVars, batchVars, storeVars>>

\* The stop button: single_running = False
UIStop ==
    /\ ui \in {"streaming", "queue"}
    /\ running
    /\ running' = FALSE
    /\ UNCHANGED <<poolVars, extractVars, threadVars, slugVars, enrichVars, tallyVars, queueVars, llm_key, call, debateVars, normVars, batchVars, storeVars,
                   ui, paused>>

\* The generator yields e and the loop reads the flag: it goes on and tallies
\* the event, or breaks and the code after the loop saves the debate.
Yielded(e) ==
    /\ events' = Append(events, e)
    /\ paused' = IF checked(running, e.type) = "streaming" THEN e.type ELSE "closed"
    /\ IF checked(running, e.type) = "streaming"
       THEN /\ ui' = "streaming"
            /\ messages' = IF e.type = "message" THEN messages + 1 ELSE messages
            /\ node_count' = IF e.type = "graph_update" THEN node_count + Len(e.nodes)
                             ELSE node_count
            /\ edge_count' = IF e.type = "graph_update" THEN edge_count + Len(e.edges)
                             ELSE edge_count
            /\ UNCHANGED <<saved, completed_log, attempted>>
       ELSE /\ AfterLoop("break", e.type)
            /\ UNCHANGED <<messages, node_count, edge_count>>
    /\ UNCHANGED <<all_topics, pending, auto_i>>

\* next(generator) from a yield that no model call follows: start, then the
\* round's info, then the attacker's thinking; after a message the sleep and
\* the next agent's thinking; after graph_update the next round's info, or
\* complete.
UIPull ==
    /\ ui = "streaming"
    /\ paused \in {"created", "start", "info", "message", "graph_update"}
    /\ LET n == stream_step(pc, round_num, rounds, enable_strategist)
       IN  CASE paused = "created" ->
                  /\ Yielded(Event("start", "", ""))
                  /\ UNCHANGED <<pc, round_num>>
             [] paused = "start" ->
                  /\ Yielded(IF rounds > 0 THEN Event("info", "", "")
                             ELSE Complete(conversation))
                  /\ UNCHANGED <<pc, round_num>>
             [] paused = "info" ->
                  /\ Yielded(Event("thinking", "Attacker", ""))
                  /\ pc' = "Attacker"
                  /\ UNCHANGED round_num
             [] paused = "message" ->
                  /\ Yielded(Event("thinking", n.pc, ""))
                  /\ pc' = n.pc
                  /\ UNCHANGED round_num
             [] paused = "graph_update" ->
                  /\ Yielded(IF round_num + 1 < rounds THEN Event("info", "", "")
                             ELSE Complete(conversation))
                  /\ round_num' = round_num + 1
                  /\ UNCHANGED pc
    /\ UNCHANGED <<poolVars, extractVars, threadVars, slugVars, enrichVars, llm_key, call, enable_strategist, rounds, conversation,
                   extractions, mode, handed, result, normVars, batchVars, storeVars,
                   running>>

\* next(generator) from a thinking: the agent's respond, or the analyst's
\* analyze_and_extract, is called.
UICall ==
    /\ ui = "streaming"
    /\ paused = "thinking"
    /\ paused' = "none"
    /\ call' = CallAt(pc)
    /\ extractions' = Extracted(pc, conversation)
    /\ handed' = HandedTo(handed, pc, conversation)
    /\ UNCHANGED <<poolVars, extractVars, threadVars, slugVars, enrichVars, tallyVars, queueVars, llm_key, enable_strategist, rounds, round_num, conversation,
                   pc, mode, events, result, normVars, batchVars, storeVars, running, ui>>

\* respond returned: conversation.append(...); the message is yielded; the
\* loop, if it goes on, appends it to single_messages and renders it.
UIMessage ==
    /\ ui = "streaming"
    /\ paused = "none"
    /\ pc \in Debaters
    /\ call.kind = "respond"
    /\ call.status = "returned"
    /\ conversation' = Append(conversation, [agent |-> pc, content |-> call.result.text])
    /\ Yielded(Event("message", pc, call.result.text))
    /\ UNCHANGED <<poolVars, extractVars, threadVars, slugVars, enrichVars, llm_key, call, enable_strategist, rounds, round_num, pc,
                   extractions, mode, handed, result, normVars, batchVars, storeVars,
                   running>>

\* analyze_and_extract returned: convert_to_schema, which may raise into the
\* loop's except; else graph_update is yielded and the loop, if it goes on,
\* writes its nodes (create_node) and then its edges (create_edge).
UIGraphUpdate ==
    /\ ui = "streaming"
    /\ paused = "none"
    /\ pc = "Analyst"
    /\ call.kind = "analyze"
    /\ call.status = "returned"
    /\ IF AnalystSchema.raised
       THEN /\ pc' = "raised"
            /\ paused' = "closed"
            /\ running' = IF InQueue THEN running ELSE FALSE
            /\ AfterLoop("except", "none")
            /\ UNCHANGED <<events, db, db_edges, messages, node_count, edge_count,
                           all_topics, pending, auto_i>>
       ELSE /\ Yielded(GraphUpdate(AnalystSchema.nodes, AnalystSchema.edges))
            /\ LET written == upsert_all(db, AnalystSchema.nodes)
               IN  IF checked(running, "graph_update") = "streaming"
                   THEN /\ db' = written
                        /\ db_edges' = create_edges(written, db_edges, AnalystSchema.edges)
                   ELSE UNCHANGED <<db, db_edges>>
            /\ UNCHANGED <<pc, running>>
    /\ UNCHANGED <<poolVars, extractVars, threadVars, slugVars, enrichVars, llm_key, call, enable_strategist, rounds, round_num,
                   conversation, extractions, mode, handed, result, normVars, batchVars,
                   nodes>>

\* respond raised: the loop's except Exception; single_running = False
UIRaise ==
    /\ ui = "streaming"
    /\ paused = "none"
    /\ call.kind = "respond"
    /\ call.status = "raised"
    /\ pc' = "raised"
    /\ paused' = "closed"
    /\ running' = IF InQueue THEN running ELSE FALSE
    /\ AfterLoop("except", "none")
    /\ UNCHANGED <<messages, node_count, edge_count, all_topics, pending, auto_i>>
    /\ UNCHANGED <<poolVars, extractVars, threadVars, slugVars, enrichVars, llm_key, call, enable_strategist, rounds, round_num,
                   conversation, extractions, mode, handed, events, result, normVars,
                   batchVars, storeVars>>

\* next(generator) from complete: the generator is exhausted, the loop ends
\* and the code after it saves the debate; single_running = False
UIFinish ==
    /\ ui = "streaming"
    /\ paused = "complete"
    /\ pc' = "done"
    /\ paused' = "closed"
    /\ running' = IF InQueue THEN running ELSE FALSE
    /\ AfterLoop("exhausted", "complete")
    /\ UNCHANGED <<messages, node_count, edge_count, all_topics, pending, auto_i>>
    /\ UNCHANGED <<poolVars, extractVars, threadVars, slugVars, enrichVars, llm_key, call, enable_strategist, rounds, round_num,
                   conversation, extractions, mode, handed, events, result, normVars,
                   batchVars, storeVars>>

\* The model calls of respond and analyze_and_extract.
ModelCalls ==
    \/ \E t \in DebateTexts : RespondReturn(t)
    \/ \E m \in DebateMsgs : RespondRateLimited(m)
    \/ \E m \in DebateMsgs : RespondRaise(m)
    \/ \E g \in Graphs : AnalyzeParsed(g)
    \/ \E t \in Malformed : AnalyzeJsonError(t)
    \/ \E m \in DebateMsgs : AnalyzeRateLimited(m)
    \/ \E m \in DebateMsgs : AnalyzeOtherError(m)

NextUI ==
    \/ \E R \in 1..MaxRounds : UIStart(R)
    \/ UIStop
    \/ UIPull
    \/ UICall
    \/ ModelCalls
    \/ UIMessage
    \/ UIGraphUpdate
    \/ UIRaise
    \/ UIFinish

SpecUI == InitDebate /\ [][NextUI]_vars

\* ------------------------------------------- debate_ui.py, the queue tab

QueueTopics == <<"T1", "T2", "T3">>

\* pending = [t for t in topics if t not in completed]
not_completed(ts, log) == SelectSeq(ts, LAMBDA t : t \notin Range(log))

\* The topics file and the completed log as a run of the page finds them.
InitQueue ==
    /\ PoolInit(SubSeq(AllCreds, 1, MaxKeys))
    /\ enable_strategist = TRUE
    /\ llm_key = [a \in Agents |-> get_key(SubSeq(AllCreds, 1, MaxKeys), 0, {}).key]
    /\ call = NoCall
    /\ rounds = 0
    /\ round_num = 0
    /\ conversation = <<>>
    /\ pc = "idle"
    /\ extractions = <<>>
    /\ mode = "none"
    /\ handed = <<>>
    /\ events = <<>>
    /\ result = NoOutcome
    /\ NoNormalize /\ NoBatch /\ NoStore /\ NoUI /\ NoThreads /\ NoSlugs /\ NoEnrich
    /\ NoTally
    /\ NoExtract
    /\ \E n \in 1..MaxQueue, c \in 0..1 :
          /\ all_topics = SubSeq(QueueTopics, 1, n)
          /\ completed_log = SubSeq(QueueTopics, 1, c)
    /\ pending = <<>>
    /\ auto_i = 0
    /\ attempted = <<>>

\* The queue's start button, shown while a topic is pending:
\* auto_running = True; the rerun computes pending and enters the loop.
AutoStart(R) ==
    /\ ui = "idle"
    /\ not_completed(all_topics, completed_log) # <<>>
    /\ running' = TRUE
    /\ ui' = "queue"
    /\ pending' = not_completed(all_topics, completed_log)
    /\ rounds' = R
    /\ UNCHANGED <<poolVars, extractVars, threadVars, slugVars, enrichVars, tallyVars, llm_key, call,
                   enable_strategist, round_num, conversation, pc, extractions, mode,
                   handed, events, result, normVars, batchVars, storeVars, paused,
                   all_topics, auto_i, completed_log, attempted>>

\* for i, topic in enumerate(pending): if not auto_running: break; else the
\* tallies are reset and the loop over stream_debate(topic) is entered. After
\* the loop: auto_running = False.
AutoNext ==
    /\ ui = "queue"
    /\ IF auto_i = Len(pending) \/ ~running
       THEN /\ ui' = "finished"
            /\ running' = FALSE
            /\ UNCHANGED <<debateVars, tallyVars, paused, auto_i, attempted>>
       ELSE /\ auto_i' = auto_i + 1
            /\ attempted' = Append(attempted, Attempt(pending[auto_i + 1], "running", "none"))
            /\ messages' = 0
            /\ node_count' = 0
            /\ edge_count' = 0
            /\ ui' = "streaming"
            /\ paused' = "created"
            /\ mode' = "stream"
            /\ round_num' = 0
            /\ conversation' = <<>>
            /\ events' = <<>>
            /\ pc' = "idle"
            /\ extractions' = <<>>
            /\ handed' = <<>>
            /\ UNCHANGED <<enable_strategist, rounds, result, saved, running>>
    /\ UNCHANGED <<poolVars, extractVars, threadVars, slugVars, enrichVars, llm_key, call, normVars,
                   batchVars, storeVars, all_topics, pending, completed_log>>

NextQueue ==
    \/ \E R \in 1..MaxRounds : AutoStart(R)
    \/ UIStop
    \/ AutoNext
    \/ UIPull
    \/ UICall
    \/ ModelCalls
    \/ UIMessage
    \/ UIGraphUpdate
    \/ UIRaise
    \/ UIFinish

SpecQueue == InitQueue /\ [][NextQueue]_vars

\* ----------------------------------- APIKeyManager under several threads

\* A thread enters get_key, rotate or mark_failed(k). The methods take no
\* lock: each read and each write of self.current_index and
\* self.failed_keys is a step of its own.
ThreadCall(t, op, k) ==
    /\ threads[t].at \in {"idle", "returned", "raised"}
    /\ op # "get_key" =>
          completed + Cardinality({u \in Threads : threads[u].op \in {"rotate", "mark_failed"}
                                                    /\ threads[u].at \in {"add", "load", "store"}})
              < MaxIndex
    /\ threads' = [threads EXCEPT ![t] =
                      [Idle EXCEPT !.op = op, !.arg = k,
                                   !.at = CASE op = "rotate" -> "load"
                                            [] op = "mark_failed" -> "add"
                                            [] OTHER -> "filter"]]
    /\ UNCHANGED <<poolVars, completed, llm_key, call, debateVars, normVars, batchVars,
                   storeVars, uiVars, slugVars, enrichVars, tallyVars, queueVars,
                   extractVars>>

\* mark_failed: self.failed_keys.add(key)
ThreadAdd(t) ==
    /\ threads[t].at = "add"
    /\ failed_keys' = failed_keys \cup {threads[t].arg}
    /\ threads' = [threads EXCEPT ![t].at = "load"]
    /\ UNCHANGED <<keys, current_index, last, completed, llm_key, call, debateVars,
                   normVars, batchVars, storeVars, uiVars, slugVars, enrichVars, tallyVars, queueVars,
                   extractVars>>

\* rotate, self.current_index += 1: the attribute is loaded
ThreadLoad(t) ==
    /\ threads[t].at = "load"
    /\ threads' = [threads EXCEPT ![t].at = "store", ![t].loaded = current_index]
    /\ UNCHANGED <<poolVars, completed, llm_key, call, debateVars, normVars, batchVars,
                   storeVars, uiVars, slugVars, enrichVars, tallyVars, queueVars,
                   extractVars>>

\* rotate, self.current_index += 1: the sum is stored and the call returns
ThreadStore(t) ==
    /\ threads[t].at = "store"
    /\ current_index' = rotate(threads[t].loaded)
    /\ completed' = completed + 1
    /\ threads' = [threads EXCEPT ![t].at = "returned"]
    /\ UNCHANGED <<keys, failed_keys, last, llm_key, call, debateVars, normVars,
                   batchVars, storeVars, uiVars, slugVars, enrichVars, tallyVars, queueVars,
                   extractVars>>

\* get_key: if not self.keys: raise ValueError; available_keys = [k for k in
\* self.keys if k not in self.failed_keys]
ThreadFilter(t) ==
    /\ threads[t].at = "filter"
    /\ threads' = [threads EXCEPT ![t] =
          IF Len(keys) = 0 THEN [@ EXCEPT !.at = "raised"]
          ELSE [@ EXCEPT !.available_keys = available_keys(keys, failed_keys),
                         !.at = IF Len(available_keys(keys, failed_keys)) = 0
                                THEN "reset" ELSE "index"]]
    /\ UNCHANGED <<poolVars, completed, llm_key, call, debateVars, normVars, batchVars,
                   storeVars, uiVars, slugVars, enrichVars, tallyVars, queueVars,
                   extractVars>>

\* get_key: self.failed_keys.clear(); available_keys = self.keys
ThreadReset(t) ==
    /\ threads[t].at = "reset"
    /\ failed_keys' = {}
    /\ threads' = [threads EXCEPT ![t].available_keys = keys, ![t].at = "index"]
    /\ UNCHANGED <<keys, current_index, last, completed, llm_key, call, debateVars,
                   normVars, batchVars, storeVars, uiVars, slugVars, enrichVars, tallyVars, queueVars,
                   extractVars>>

\* get_key: return available_keys[self.current_index % len(available_keys)]
ThreadIndex(t) ==
    /\ threads[t].at = "index"
    /\ threads' = [threads EXCEPT
          ![t].result = threads[t].available_keys[
                            (current_index % Len(threads[t].available_keys)) + 1],
          ![t].at = "returned"]
    /\ UNCHANGED <<poolVars, completed, llm_key, call, debateVars, normVars, batchVars,
                   storeVars, uiVars, slugVars, enrichVars, tallyVars, queueVars,
                   extractVars>>

NextThreads ==
    \E t \in Threads :
        \/ \E op \in {"get_key", "rotate"} : ThreadCall(t, op, NoKey)
        \/ \E k \in Creds : ThreadCall(t, "mark_failed", k)
        \/ ThreadAdd(t)
        \/ ThreadLoad(t)
        \/ ThreadStore(t)
        \/ ThreadFilter(t)
        \/ ThreadReset(t)
        \/ ThreadIndex(t)

SpecThreads == InitPool /\ [][NextThreads]_vars

\* ------------------------------------------- the derivation of a slug

\* The characters of a raw id / name: a lower-case and an upper-case letter,
\* the space, the tab, the underscore, a punctuation mark.
Chars == {"a", "A", " ", "\t", "_", "!"}
RawTexts == SeqsUpTo(Chars, MaxLen)

\* The derivation named by.
Derive(by, text) == IF by = "slugify" THEN slugify(text) ELSE Cartographer_id(text)

InitSlug ==
    /\ raw_text \in RawTexts
    /\ slug = NoSlug
    /\ NoPool
    /\ NoDebate
    /\ NoNormalize
    /\ NoBatch
    /\ NoStore
    /\ NoUI
    /\ NoThreads
    /\ NoEnrich
    /\ NoTally
    /\ NoQueue
    /\ NoExtract

\* slugify(text) / the cartographer's id expression is applied to the raw text.
DeriveSlug(by) ==
    /\ slug.applied = 0
    /\ slug' = [by |-> by, once |-> Derive(by, raw_text), twice |-> <<>>, applied |-> 1]
    /\ UNCHANGED <<poolVars, extractVars, threadVars, llm_key, call, debateVars, normVars, batchVars,
                   storeVars, uiVars, enrichVars, tallyVars, queueVars,
                   extractVars, raw_text>>

\* The same derivation is applied to the id it gave.
DeriveAgain ==
    /\ slug.applied = 1
    /\ slug' = [slug EXCEPT !.twice = Derive(slug.by, slug.once), !.applied = 2]
    /\ UNCHANGED <<poolVars, extractVars, threadVars, llm_key, call, debateVars, normVars, batchVars,
                   storeVars, uiVars, enrichVars, tallyVars, queueVars,
                   extractVars, raw_text>>

NextSlug ==
    \/ \E by \in {"slugify", "Cartographer"} : DeriveSlug(by)
    \/ DeriveAgain

SpecSlug == InitSlug /\ [][NextSlug]_vars

\* ------------------------------------------ DebateOrchestrator.enrich_graph

\* The graph handed to enrich_graph: nodes whose name is not their id.
EnrichNodes ==
    <<GraphNode(<<"a">>, <<"A">>, "concept", None, None),
      GraphNode(<<"a", "a">>, <<"A", " ", "a">>, "technique", None, None)>>
EnrichEdge == GraphEdge(<<"a">>, <<"a", "a">>, "causes", None)

\* What the model names as the ends of a new edge: an id, a name, or a text
\* that is neither.
EndTexts == {<<"a">>, <<"a", "a">>, <<"A", " ", "a">>, <<"_">>}
\* The model's response: text that holds no JSON array, or an array of edges.
NoArray == [parsed |-> FALSE, edges |-> <<>>]
ArrayOf(es) == [parsed |-> TRUE, edges |-> es]
EnrichResponses ==
    {NoArray}
    \cup {ArrayOf(es) :
              es \in UNION {[1..k -> {RawEdgeOf(Some(x), Some(y), NoLabel, r) :
                                         x \in EndTexts, y \in EndTexts,
                                         r \in OptLabel({"causes"})}] : k \in 0..1}}

\* _parse_json_array(response): the list, or None
parse_json_array(response) ==
    IF response.parsed THEN [isNone |-> FALSE, list |-> response.edges]
    ELSE [isNone |-> TRUE, list |-> <<>>]

\* enrich_connections: return new_edges if new_edges else []
enrich_connections(response) ==
    IF parse_json_array(response).isNone \/ parse_json_array(response).list = <<>>
    THEN <<>>
    ELSE parse_json_array(response).list

\* enrich_graph: if new_edge_dicts: _, new_edges =
\* self.cartographer.convert_to_schema([], new_edge_dicts); return new_edges
\* else return []
enrich_graph(response) ==
    IF enrich_connections(response) # <<>>
    THEN Cartographer_convert_to_schema(JList(<<>>), JList(enrich_connections(response)),
                                        None).edges
    ELSE <<>>

InitEnrich ==
    /\ \E k \in 0..Len(EnrichNodes), j \in 0..1 :
          /\ existing_nodes = SubSeq(EnrichNodes, 1, k)
          /\ existing_edges = SubSeq(<<EnrichEdge>>, 1, j)
    /\ new_edges = NoEnrichment
    /\ NoPool
    /\ NoDebate
    /\ NoNormalize
    /\ NoBatch
    /\ NoStore
    /\ NoUI
    /\ NoThreads
    /\ NoSlugs
    /\ NoTally
    /\ NoQueue
    /\ NoExtract

\* enrich_graph(existing_nodes, existing_edges) where the cartographer's
\* invoke returned response
EnrichGraph(response) ==
    /\ new_edges.status = "none"
    /\ new_edges' = [status |-> "returned", edges |-> enrich_graph(response)]
    /\ UNCHANGED <<poolVars, extractVars, threadVars, slugVars, llm_key, call, debateVars, normVars,
                   batchVars, storeVars, uiVars, tallyVars, queueVars, existing_nodes,
                   existing_edges>>

\* enrich_graph where the cartographer's invoke raised: nothing catches it.
EnrichRaise ==
    /\ new_edges.status = "none"
    /\ new_edges' = [status |-> "raised", edges |-> <<>>]
    /\ UNCHANGED <<poolVars, extractVars, threadVars, slugVars, llm_key, call, debateVars, normVars,
                   batchVars, storeVars, uiVars, tallyVars, queueVars, existing_nodes,
                   existing_edges>>

NextEnrich ==
    \/ \E response \in EnrichResponses : EnrichGraph(response)
    \/ EnrichRaise

SpecEnrich == InitEnrich /\ [][NextEnrich]_vars

\* ------------------------------------------ BaseGraphExtractor.extract_all

\* The prefixes of the f-strings that build the ids, and of the outcome's name
ConceptPrefix == <<"concept_">>
TechPrefix == <<"tech_">>
RiskPrefix == <<"risk_">>
DefensePrefix == <<"defense_">>
OutcomePrefix == <<"outcome_">>
InfluencePrefix == <<"influence">>

\* Python's truth value of an Optional[str]
Truthy(text) == text # None /\ text # <<>>

\* The records of the JSONL files: two books of which one's slug is the other's
\* chapter id, a chapter title that is absent, plain, or slugifies to nothing,
\* two titles of one slug, risk lists that repeat a slug.
BookRecords ==
    [book_title : {<<"a">>, <<"a", " ", "a">>},
     category : {<<"A">>},
     chapter_title : {None, <<"a">>, <<"!">>},
     title : {<<"a">>, <<"A">>},
     description : {None},
     psychological_techniques : {<<>>, <<<<"a">>>>},
     risk_factors : {<<>>, <<<<"a">>>>, <<<<"a">>, <<"A">>>>},
     control_techniques : {<<>>, <<<<"a">>>>},
     influence_level : {None, <<"a">>}]

\* An append that skips the duplicate check.
add_edge_unchecked(es, edge) == Append(es, edge)

\* _add_edge(edge)
add_edge(es, edge) ==
    IF \E i \in 1..Len(es) :
           /\ es[i].source = edge.source
           /\ es[i].target = edge.target
           /\ es[i].type = edge.type
    THEN es
    ELSE Append(es, edge)

\* extract_from_record(record): the nodes and the edges, each in the order in
\* which the method appends them
extract_from_record(record) ==
    LET book_id == slugify(record.book_title)
        chapter_id == IF Truthy(record.chapter_title)
                      THEN slugify(record.chapter_title) ELSE None
        title_id == slugify(record.title)
        source_book == record.book_title
        chapter_node_id == book_id \o <<"_">> \o chapter_id
        concept_id == ConceptPrefix \o title_id
        tech_id(t) == TechPrefix \o slugify(t)
        risk_id(r) == RiskPrefix \o slugify(r)
        def_id(d) == DefensePrefix \o slugify(d)
        outcome_id == OutcomePrefix \o slugify(record.influence_level)
        techniques == record.psychological_techniques
        risks == record.risk_factors
        defenses == record.control_techniques
    IN  [nodes |->
             <<GraphNode(book_id, record.book_title, "book", record.category, None)>>
             \o (IF Truthy(chapter_id)
                 THEN <<GraphNode(chapter_node_id, record.chapter_title, "chapter",
                                  None, source_book)>>
                 ELSE <<>>)
             \o <<GraphNode(concept_id, record.title, "concept", record.description,
                            source_book)>>
             \o [i \in 1..Len(techniques) |->
                    GraphNode(tech_id(techniques[i]), techniques[i], "technique", None,
                              source_book)]
             \o [i \in 1..Len(risks) |->
                    GraphNode(risk_id(risks[i]), risks[i], "risk", None, source_book)]
             \o [i \in 1..Len(defenses) |->
                    GraphNode(def_id(defenses[i]), defenses[i], "defense", None,
                              source_book)]
             \o (IF Truthy(record.influence_level)
                 THEN <<GraphNode(outcome_id, InfluencePrefix \o record.influence_level,
                                  "outcome", None, None)>>
                 ELSE <<>>),
         edges |->
             (IF Truthy(chapter_id)
              THEN <<GraphEdge(book_id, chapter_node_id, "part_of", source_book),
                     GraphEdge(concept_id, chapter_node_id, "mentioned_in", source_book)>>
              ELSE <<>>)
             \o [i \in 1..Len(techniques) |->
                    GraphEdge(concept_id, tech_id(techniques[i]), "uses", source_book)]
             \o [i \in 1..Len(risks) |->
                    GraphEdge(concept_id, risk_id(risks[i]), "causes", source_book)]
             \o Flatten([i \in 1..Len(defenses) |->
                    [j \in 1..Len(risks) |->
                        GraphEdge(def_id(defenses[i]), risk_id(risks[j]), "prevents",
                                  source_book)]])
             \o (IF Truthy(record.influence_level)
                 THEN <<GraphEdge(concept_id, outcome_id, "leads_to", source_book)>>
                 ELSE <<>>)]

\* for node in nodes: self._add_node(node)
RECURSIVE add_nodes(_, _)
add_nodes(ns, new) ==
    IF new = <<>> THEN ns ELSE add_nodes(add_node(ns, Head(new)), Tail(new))

\* for edge in edges: self._add_edge(edge)
RECURSIVE add_edges(_, _)
add_edges(es, new) ==
    IF new = <<>> THEN es ELSE add_edges(add_edge(es, Head(new)), Tail(new))

InitExtract ==
    /\ NoStore
    /\ NoExtract
    /\ NoPool
    /\ NoDebate
    /\ NoNormalize
    /\ NoBatch
    /\ NoUI
    /\ NoThreads
    /\ NoSlugs
    /\ NoEnrich
    /\ NoTally
    /\ NoQueue

\* One pass of the loop of extract_all over the loaded records
ExtractRecord(record) ==
    /\ Len(nodes) < MaxNodes
    /\ LET extracted == extract_from_record(record)
       IN  /\ nodes' = add_nodes(nodes, extracted.nodes)
           /\ extractor_edges' = add_edges(extractor_edges, extracted.edges)
    /\ UNCHANGED <<poolVars, debateVars, llm_key, call, normVars, batchVars, uiVars,
                   threadVars, slugVars, enrichVars, tallyVars, queueVars, db, db_edges>>

NextExtract == \E record \in BookRecords : ExtractRecord(record)

SpecExtract == InitExtract /\ [][NextExtract]_vars

\* ------------------------------- scripts/run_enhanced_debate.py: run_auto_debate

\* The lines of the topics file, which load_topics returns as they stand, and
\* of the completed log. A line can be written twice.
ScriptTopics == {"T1", "T2"}
TopicFiles == SeqsUpTo(ScriptTopics, MaxQueue)
CompletedLogs == {<<>>, <<"T1">>}

\* What run_debate hands back, or that it raised; a result's nodes are saved one
\* by one, a node whose create_node raised is reported and skipped.
RunResults == {<<>>} \cup {<<n>> : n \in {GraphNode(<<"a">>, <<"A">>, "concept", None, Source)}}

InitResume ==
    /\ all_topics \in TopicFiles
    /\ completed_log \in CompletedLogs
    /\ pending = <<>>
    /\ auto_i = 0
    /\ attempted = <<>>
    /\ NoPool
    /\ NoDebate
    /\ NoNormalize
    /\ NoBatch
    /\ NoStore
    /\ NoUI
    /\ NoThreads
    /\ NoSlugs
    /\ NoEnrich
    /\ NoTally
    /\ NoExtract

\* run_auto_debate(resume=True) up to its loop, a run of the script after the
\* previous one has ended: the file and the log are read again.
ResumeStart ==
    /\ auto_i = 0 \/ auto_i > Len(pending)
    /\ pending' = not_completed(all_topics, completed_log)
    /\ auto_i' = 1
    /\ attempted' = <<>>
    /\ UNCHANGED <<poolVars, debateVars, llm_key, call, normVars, batchVars, uiVars,
                   threadVars, slugVars, enrichVars, tallyVars, extractVars, storeVars,
                   all_topics, completed_log>>

\* One pass of the loop, run_debate returned: the nodes are saved, the topic
\* is appended to the log.
ResumeReturned(returned, stored) ==
    /\ auto_i \in 1..Len(pending)
    /\ attempted' = Append(attempted, Attempt(pending[auto_i], "returned", "none"))
    /\ db' = IF stored THEN upsert_all(db, returned) ELSE db
    /\ completed_log' = save_completed(completed_log, pending[auto_i])
    /\ auto_i' = auto_i + 1
    /\ UNCHANGED <<poolVars, debateVars, llm_key, call, normVars, batchVars, uiVars,
                   threadVars, slugVars, enrichVars, tallyVars, extractVars, nodes,
                   db_edges, all_topics, pending>>

\* One pass of the loop, run_debate raised: except Exception, sleep, continue
ResumeRaised ==
    /\ auto_i \in 1..Len(pending)
    /\ attempted' = Append(attempted, Attempt(pending[auto_i], "raised", "none"))
    /\ auto_i' = auto_i + 1
    /\ UNCHANGED <<poolVars, debateVars, llm_key, call, normVars, batchVars, uiVars,
                   threadVars, slugVars, enrichVars, tallyVars, extractVars, storeVars,
                   all_topics, pending, completed_log>>

NextResume ==
    \/ ResumeStart
    \/ \E returned \in RunResults, stored \in BOOLEAN : ResumeReturned(returned, stored)
    \/ ResumeRaised

SpecResume == InitResume /\ [][NextResume]_vars

\* ------------------------------------------------------------------ claims

Last(s) == s[Len(s)]

\* C1: a pool built with N >= 1 credentials never raises from get_key and
\* always returns one of the configured credentials, whatever mark_failed /
\* rotate / get_key calls came before (an exhausted pool is reset).
C1_GetKeyAlwaysLive ==
    (Len(keys) >= 1 /\ last.op = "get_key")
        => (~last.raised /\ last.key \in Range(keys))

\* get_key right after N mark_failed calls in a row that excluded all N keys.
C1_Witness ==
    /\ Len(keys) >= 2
    /\ Cardinality(Range(keys)) = Len(keys)
    /\ last.op = "get_key"
    /\ last.streak = Len(keys)
    /\ last.reset
    /\ last.key \in Range(keys)

\* The positions of the configured list whose key is not excluded.
NonFailedPositions == {i \in 1..Len(keys) : keys[i] \notin failed_keys}
RankOf(j) == Cardinality({i \in NonFailedPositions : i <= j})

\* C2: get_key returns the (index mod m)-th of the m configured keys that are
\* not excluded, in configured order; with m = 0 it clears the exclusion set
\* and returns keys[index mod N]. The key returned is never excluded when
\* get_key returns.
C2_GetKeySelection ==
    [][ (last'.op = "get_key" /\ Len(keys) >= 1) =>
          /\ IF NonFailedPositions = {}
             THEN /\ failed_keys' = {}
                  /\ last'.key = keys[(current_index % Len(keys)) + 1]
             ELSE /\ failed_keys' = failed_keys
                  /\ \E j \in NonFailedPositions :
                        /\ RankOf(j) =
                             (current_index % Cardinality(NonFailedPositions)) + 1
                        /\ last'.key = keys[j]
          /\ last'.key \notin failed_keys'
      ]_vars

\* get_key skipped an excluded key: it returned the second configured key
\* although index mod N points at the first.
C2_Witness ==
    /\ last.op = "get_key"
    /\ Len(keys) = 2
    /\ keys[1] \in failed_keys
    /\ current_index % 2 = 0
    /\ last.key = keys[2]

\* C3: mark_failed(c) adds exactly c to the exclusion set and advances index
\* by 1; rotate advances index by 1 and leaves the exclusion set alone;
\* get_key leaves index alone and changes the exclusion set only by the full
\* reset; none of them changes the configured list.
C3_PoolFrame ==
    [][ /\ keys' = keys
        /\ last'.op = "mark_failed" =>
              /\ failed_keys' = failed_keys \cup {last'.arg}
              /\ current_index' = current_index + 1
        /\ last'.op = "rotate" =>
              /\ current_index' = current_index + 1
              /\ failed_keys' = failed_keys
        /\ last'.op = "get_key" =>
              /\ current_index' = current_index
              /\ \/ failed_keys' = failed_keys
                 \/ /\ failed_keys' = {}
                    /\ Range(keys) \subseteq failed_keys
      ]_vars

\* mark_failed has just excluded a further key and moved the index on.
C3_Witness ==
    /\ last.op = "mark_failed"
    /\ last.streak = 2
    /\ Cardinality(failed_keys) = 2
    /\ current_index = 3

\* The classes of a failure message as BaseAgent.invoke tests them.
RateLimitClass(m) == "rate" \in m \/ "limit" \in m \/ "quota" \in m
TransientClass(m) == ~RateLimitClass(m) /\ ("timeout" \in m \/ "connection" \in m)
NonRetryableClass(m) == ~RateLimitClass(m) /\ ~TransientClass(m)

\* The key get_key hands out at index i of the pool (nothing is excluded
\* while the agents run).
KeyAt(i) == keys[(i % Len(keys)) + 1]

\* C4: every rate-limited attempt of invoke is followed by exactly one
\* rotation (index + 1) and a rebuild of the agent's client on the key the
\* pool hands out after that rotation; the next attempt uses that client.
C4_RotateRebuildThenRetry ==
    call.kind = "invoke" =>
        \A i \in 1..Len(call.log) :
            LET e == call.log[i]
            IN  (~e.ok /\ RateLimitClass(e.msg)) =>
                  /\ e.idx2 = e.idx + 1
                  /\ e.llm2 = KeyAt(e.idx2)
                  /\ IF i < Len(call.log)
                     THEN /\ call.log[i + 1].key = e.llm2
                          /\ call.log[i + 1].idx = e.idx2
                     ELSE /\ llm_key[call.agent] = e.llm2
                          /\ current_index = e.idx2

\* A rate-limited attempt on one key, then the next attempt on another key.
C4_Witness ==
    /\ call.kind = "invoke"
    /\ Len(call.log) >= 2
    /\ ~call.log[1].ok
    /\ RateLimitClass(call.log[1].msg)
    /\ call.log[2].key # call.log[1].key
    /\ call.log[2].ok

Retryable(e) == ~e.ok /\ ~NonRetryableClass(e.msg)

C5_Bounded ==
    call.kind = "invoke" =>
        /\ Len(call.log) <= call.max_retries
        /\ call.status = "running" => Len(call.log) < call.max_retries
        /\ \A i \in 1..(Len(call.log) - 1) : Retryable(call.log[i])
        /\ call.status = "returned" =>
              /\ Len(call.log) >= 1
              /\ Last(call.log).ok
              /\ call.result = TextResult(Last(call.log).text)
        /\ (Len(call.log) = call.max_retries
              /\ \A i \in 1..Len(call.log) : Retryable(call.log[i])) =>
              /\ call.status = "raised"
              /\ call.result = RateLimitError
        /\ call.result = RateLimitError => Len(call.log) = call.max_retries

\* C5: invoke(prompt, max_retries) terminates after at most max_retries
\* client calls: it returns the text of the first call that succeeds, and
\* when all max_retries calls fail with retryable classes it raises
\* RateLimitError after exactly max_retries calls.
C5_InvokeTerminates ==
    /\ []C5_Bounded
    /\ (Invoking ~> ~Invoking)

\* Three retryable failures of mixed classes, then the RateLimitError.
C5_Witness ==
    /\ call.kind = "invoke"
    /\ call.max_retries = 3
    /\ Len(call.log) = 3
    /\ RateLimitClass(call.log[1].msg)
    /\ TransientClass(call.log[2].msg)
    /\ Retryable(call.log[3])
    /\ call.status = "raised"
    /\ call.result = RateLimitError

\* C6: a failure that is neither rate-limit nor timeout/connection is
\* re-raised on the attempt where it occurs: it ends invoke with that very
\* exception, no further client call follows it, and pool index, exclusion
\* set and bound clients are as they were before the attempt.
C6_NonRetryablePropagates ==
    [][ (Invoking /\ Len(call'.log) = Len(call.log) + 1
           /\ ~Last(call'.log).ok /\ NonRetryableClass(Last(call'.log).msg)) =>
          /\ call'.status = "raised"
          /\ call'.result = Reraised(Last(call'.log).msg)
          /\ current_index' = current_index
          /\ failed_keys' = failed_keys
          /\ llm_key' = llm_key
      ]_vars

\* invoke ended by a re-raised exception on its second attempt.
C6_Witness ==
    /\ call.kind = "invoke"
    /\ call.status = "raised"
    /\ call.result.type = "Exception"
    /\ Len(call.log) = 2
    /\ call.max_retries = 3

\* C7: an attempt that fails with a timeout/connection message that is not
\* rate-limit-classified leaves pool index, exclusion set and bound clients
\* unchanged, sleeps 2^attempt, and is retried while attempts remain.
C7_TransientNoRotation ==
    [][ (Invoking /\ Len(call'.log) = Len(call.log) + 1
           /\ ~Last(call'.log).ok /\ TransientClass(Last(call'.log).msg)) =>
          /\ current_index' = current_index
          /\ failed_keys' = failed_keys
          /\ llm_key' = llm_key
          /\ Last(call'.log).sleep = 2 ^ call.attempt
          /\ call.attempt + 1 < call.max_retries =>
                /\ call'.status = "running"
                /\ call'.attempt = call.attempt + 1
      ]_vars

\* A timeout on the first attempt, then a second attempt on the same client.
C7_Witness ==
    /\ call.kind = "invoke"
    /\ Len(call.log) = 2
    /\ TransientClass(call.log[1].msg)
    /\ call.log[2].key = call.log[1].key
    /\ call.log[2].idx = call.log[1].idx
    /\ call.log[2].ok

\* C8: respond retries a timeout/connection failure of the model call up to
\* the retry ceiling; it does not raise it out of respond while attempts
\* remain.
C8_RespondRetriesTransient ==
    (call.kind = "respond" /\ call.status = "raised"
        /\ Len(call.log) < call.max_retries)
        => ~TransientClass(Last(call.log).msg)

\* The rate-limit class as ReaderAgent.respond tests it.
RespondRateLimitClass(m) == "429" \in m \/ "quota" \in m

TurnsPerRound == IF enable_strategist THEN 3 ELSE 2

RespondExhausted ==
    /\ call.kind = "respond"
    /\ Len(call.log) = call.max_retries
    /\ \A i \in 1..Len(call.log) :
          ~call.log[i].ok /\ RespondRateLimitClass(call.log[i].msg)

\* C9: when every one of the max_retries attempts of respond is rate
\* limited (429 / quota), respond returns the agent's sentinel string and
\* does not raise; run_debate appends the sentinel as that agent's turn and
\* goes on to the next agent, so the debate still has all its turns.
C9_SentinelTurn ==
    /\ [](RespondExhausted =>
            /\ call.status = "returned"
            /\ call.result = TextResult(Sentinel(call.agent)))
    /\ [][ (pc \in Debaters /\ call.kind = "respond" /\ call.status = "returned"
              /\ call.result.text = Sentinel(pc)) =>
             /\ conversation' =
                   Append(conversation, [agent |-> pc, content |-> Sentinel(pc)])
             /\ pc' \in (Debaters \cup {"Analyst"}) \ {pc}
             /\ call'.status = "running"
         ]_vars
    /\ [](pc \in {"Analyst", "done"} => Len(conversation) = TurnsPerRound * rounds)

\* A finished debate whose first turn is the attacker's sentinel and whose
\* later turns are the other agents' texts.
C9_Witness ==
    /\ pc = "done"
    /\ rounds = 2
    /\ Len(conversation) = TurnsPerRound * rounds
    /\ conversation[1].content = Sentinel("Attacker")
    /\ conversation[2].content \in DebateTexts

\* run_debate got past its rounds: the analyst is running, or the debate
\* returned, or convert_to_schema raised on what the analyst returned.
AnalystReached ==
    pc \in {"Analyst", "done"} \/ (pc = "raised" /\ call.kind = "analyze")

\* C10: when no debater call raises, run_debate of R rounds has appended
\* exactly 2R turns (3R with the strategist) when analyze_and_extract is
\* called, and it is called exactly once, after the last round.
C10_TurnsBeforeExtraction ==
    /\ Len(extractions) <= 1
    /\ \A i \in 1..Len(extractions) : extractions[i].turns = TurnsPerRound * rounds
    /\ AnalystReached <=> (Len(extractions) = 1)
    /\ AnalystReached =>
          /\ Len(conversation) = TurnsPerRound * rounds
          /\ round_num = rounds

\* A finished debate of two rounds with the strategist: six turns, one
\* extraction.
C10_Witness ==
    /\ pc = "done"
    /\ rounds = 2
    /\ enable_strategist
    /\ Len(conversation) = 6
    /\ extractions = <<[turns |-> 6]>>

\* ------------------------------------------------------- orchestration claims

MessagesOf(es) == SelectSeq(es, LAMBDA e : e.type = "message")
GraphUpdatesOf(es) == SelectSeq(es, LAMBDA e : e.type = "graph_update")
CountOf(es, type) == Len(SelectSeq(es, LAMBDA e : e.type = type))
Prefix(es, n) == SubSeq(es, 1, n)

\* stream_debate is over and no debater call raised: it ran to complete, or it
\* was ended by what followed the analyst's call.
StreamOver ==
    mode = "stream" /\ (pc = "done" \/ (pc = "raised" /\ call.kind = "analyze"))

\* C11: stream_debate of R rounds in which no debater call raises yields
\* exactly R graph_update events, one per round: the k-th comes after the
\* k-th round's last message and before the next round's first thinking (before
\* complete in the last round), also when the round's extraction failed.
C11_GraphUpdatePerRound ==
    StreamOver =>
        /\ CountOf(events, "graph_update") = rounds
        /\ \A p \in 1..Len(events) :
              events[p].type = "graph_update" =>
                  /\ events[p - 1].type = "thinking"
                  /\ events[p - 2].type = "message"
                  /\ CountOf(Prefix(events, p), "message")
                        = TurnsPerRound * CountOf(Prefix(events, p), "graph_update")
                  /\ events[p + 1].type \in {"info", "complete"}

\* The debaters of an orchestrator, in the order of a round.
OrderOf(m) ==
    IF m = "topic" THEN <<"Predator", "Guardian">>
    ELSE IF enable_strategist THEN <<"Attacker", "Defender", "Strategist">>
    ELSE <<"Attacker", "Defender">>

\* C12: the debaters are called in the order A, B, (C) in every round, and a
\* turn is appended before the next debater is called: the k-th debater call
\* (k from 0) is handed exactly the first k turns of the transcript.
C12_HistoryIsPrefix ==
    /\ Len(conversation) \in {Len(handed) - 1, Len(handed)}
    /\ \A k \in 1..Len(handed) :
          /\ handed[k].agent = OrderOf(mode)[((k - 1) % Len(OrderOf(mode))) + 1]
          /\ handed[k].history = SubSeq(conversation, 1, k - 1)
    /\ \A k \in 1..Len(conversation) : conversation[k].agent = handed[k].agent

\* The strategist of the second round was handed the five turns before its own.
C12_Witness ==
    /\ enable_strategist
    /\ Len(handed) = 6
    /\ handed[6].agent = "Strategist"
    /\ Len(handed[6].history) = 5
    /\ handed[6].history[5].agent = "Defender"

\* C13: the events of stream_debate begin with the only start event; a stream
\* in which no agent call raised ends with the only complete event, which
\* carries the full transcript; every message event comes right after the
\* thinking event of the same agent; the message events are, in order, the
\* turns of the transcript.
C13_EventSequence ==
    mode = "stream" =>
        /\ events[1].type = "start"
        /\ CountOf(events, "start") = 1
        /\ CountOf(events, "complete") = IF pc = "done" THEN 1 ELSE 0
        /\ pc = "done" =>
              /\ Last(events).type = "complete"
              /\ Last(events).conversation = conversation
              /\ Len(conversation) = TurnsPerRound * rounds
        /\ \A p \in 1..Len(events) :
              events[p].type = "message" =>
                  /\ events[p - 1].type = "thinking"
                  /\ events[p - 1].agent = events[p].agent
        /\ Len(MessagesOf(events)) = Len(conversation)
        /\ \A k \in 1..Len(conversation) :
              /\ MessagesOf(events)[k].agent = conversation[k].agent
              /\ MessagesOf(events)[k].content = conversation[k].content

\* A stream of two rounds that ran to complete: four messages, the first one
\* the attacker's sentinel, and two graph updates.
C13_Witness ==
    /\ mode = "stream"
    /\ pc = "done"
    /\ rounds = 2
    /\ ~enable_strategist
    /\ Last(events).type = "complete"
    /\ Len(Last(events).conversation) = 4
    /\ Last(events).conversation[1].content = Sentinel("Attacker")
    /\ CountOf(events, "message") = 4
    /\ CountOf(events, "graph_update") = 2

\* Every response the extractor got in this call was malformed.
AllMalformed ==
    /\ call.log # <<>>
    /\ \A i \in 1..Len(call.log) : call.log[i].ok /\ call.log[i].text \in Malformed
EmptyOutcome == [status |-> "returned", nodes |-> <<>>, edges |-> <<>>]

\* C14: when every response of the extractor is malformed, analyze_and_extract
\* returns ([], []) after max_retries model calls at most and the pool is not
\* rotated; _parse_json_response returns ([], []); the orchestrator goes on:
\* run_debate and debate_topic return the full transcript with no nodes and no
\* edges, stream_debate yields the round's empty graph_update and goes on to
\* the next round or to complete.
C14_MalformedDegrades ==
    /\ []((call.kind = "analyze" /\ AllMalformed) =>
            /\ Len(call.log) <= call.max_retries
            /\ call.status = IF Len(call.log) < call.max_retries
                             THEN "running" ELSE "returned"
            /\ call.status = "returned" => RawPair(call.result.text) = RawPair("empty")
            /\ \A i \in 1..Len(call.log) :
                  /\ call.log[i].idx2 = call.log[i].idx
                  /\ call.log[i].llm2 = call.log[i].key
                  /\ call.log[i].idx = current_index)
    /\ [][ (AllMalformed /\ call.status = "returned"
              /\ pc \in {"Analyst", "Cartographer"}) =>
             /\ conversation' = conversation
             /\ Len(conversation) = Len(handed)
             /\ current_index' = current_index
             /\ mode \in {"run", "topic"} => (pc' = "done" /\ result' = EmptyOutcome)
             /\ mode = "stream" =>
                   /\ pc' = IF round_num + 1 < rounds THEN "Attacker" ELSE "done"
                   /\ Len(events') > Len(events)
                   /\ events'[Len(events) + 1] = GraphUpdate(<<>>, <<>>)
                   /\ pc' = "done" => Last(events') = Complete(conversation)
         ]_vars

\* run_debate of two rounds returned all its turns and an empty graph after
\* the analyst got three malformed responses, one of them cut short.
C14_Witness ==
    /\ mode = "run"
    /\ pc = "done"
    /\ rounds = 2
    /\ Len(conversation) = TurnsPerRound * rounds
    /\ call.kind = "analyze"
    /\ AllMalformed
    /\ Len(call.log) = DefaultMaxRetries
    /\ \E i \in 1..Len(call.log) : call.log[i].text = "truncated"
    /\ result = EmptyOutcome

\* C15: no failure of the extraction step aborts an otherwise successful
\* debate: once the debaters have had their turns, run_debate, stream_debate
\* and debate_topic do not raise, whatever the extractor's model calls and
\* payload are.
C15_ExtractionNeverAborts ==
    ~(pc = "raised" /\ call.agent \in {"Analyst", "Cartographer"})

\* The labels the two normalizers know, and the key an edge's label is read from.
KnownNodeLabels(who) ==
    IF who = "Analyst"
    THEN {"concept", "technique", "risk", "defense", "outcome", "insight"}
    ELSE {"concept", "technique", "risk", "defense", "person", "outcome"}
KnownEdgeLabels(who) ==
    IF who = "Analyst"
    THEN {"causes", "prevents", "enables", "contradicts", "supports", "relates_to"}
    ELSE {"leads_to", "prevents", "causes", "uses", "counters", "requires",
          "related_to", "exploits"}
EdgeLabelKey(who) == IF who = "Analyst" THEN "type" ELSE "relation"
NodeLabelUnknown(who, n) == "type" \notin n.has \/ n.type \notin KnownNodeLabels(who)
EdgeLabelUnknown(who, e) ==
    EdgeLabelKey(who) \notin e.has \/ e[EdgeLabelKey(who)] \notin KnownEdgeLabels(who)
\* The record holds None nowhere a text is needed.
NodeBuilt(n) == ("id" \in n.has => n.id # None) /\ ("name" \in n.has => n.name # None)
EdgeBuilt(e) ==
    ("source" \in e.has => e.source # None) /\ ("target" \in e.has => e.target # None)
Converting == schema.by # "none" /\ raw_nodes.json = "list" /\ raw_edges.json = "list"

\* C16: neither convert_to_schema raises on a raw node or edge whose type /
\* relation label is outside its mapping dictionary or absent: the node is
\* emitted with type concept, the edge with type related_to.
C16_UnknownLabelDefaults ==
    Converting =>
        /\ ~schema.raised
        /\ (\A i \in 1..Len(raw_nodes.items) : NodeBuilt(raw_nodes.items[i])) =>
              /\ Len(schema.nodes) = Len(raw_nodes.items)
              /\ \A i \in 1..Len(raw_nodes.items) :
                    NodeLabelUnknown(schema.by, raw_nodes.items[i])
                        => schema.nodes[i].type = "concept"
        /\ (\A i \in 1..Len(raw_edges.items) : EdgeBuilt(raw_edges.items[i])) =>
              /\ Len(schema.edges) = Len(raw_edges.items)
              /\ \A i \in 1..Len(raw_edges.items) :
                    EdgeLabelUnknown(schema.by, raw_edges.items[i])
                        => schema.edges[i].type = "related_to"

\* The analyst's normalizer was given a node labelled "person" and an edge
\* labelled "leads_to" under "type", and emitted a concept and a related_to.
C16_Witness ==
    /\ schema.by = "Analyst"
    /\ Len(raw_nodes.items) = 1
    /\ Len(raw_edges.items) = 1
    /\ "type" \in raw_nodes.items[1].has
    /\ raw_nodes.items[1].type = "person"
    /\ "type" \in raw_edges.items[1].has
    /\ raw_edges.items[1].type = "leads_to"
    /\ Len(schema.nodes) = 1
    /\ schema.nodes[1].type = "concept"
    /\ Len(schema.edges) = 1
    /\ schema.edges[1].type = "related_to"

\* C17: convert_to_schema skips every raw record that lacks a mandatory field
\* (a node with neither id nor name, an edge without source or target) or
\* whose construction fails, and emits every other record: no GraphNode with
\* an empty id and no GraphEdge with an empty source or target is produced,
\* and it does not raise because of one bad record.
C17_NoEmptyIdentity ==
    Converting =>
        /\ ~schema.raised
        /\ \A i \in 1..Len(schema.nodes) : schema.nodes[i].id # <<>>
        /\ \A i \in 1..Len(schema.edges) :
              schema.edges[i].source # <<>> /\ schema.edges[i].target # <<>>

\* C18: every GraphNode id either convert_to_schema produces is lower-cased
\* and free of whitespace, and so are the source and target of every
\* GraphEdge.
IsSlug(t) == \A i \in 1..Len(t) : t[i] # "A" /\ ~IsSpace(t[i])
C18_IdsAreSlugs ==
    Converting =>
        /\ \A i \in 1..Len(schema.nodes) : IsSlug(schema.nodes[i].id)
        /\ \A i \in 1..Len(schema.edges) :
              IsSlug(schema.edges[i].source) /\ IsSlug(schema.edges[i].target)

\* ------------------------------------------------------ normalization claims

\* A well-formed raw record: a node with an id that is already canonical, a
\* name and a type label of the normalizer's dictionary; an edge with a
\* canonical source and target and, under "type", a label of the dictionary.
Canonical(t) == t # None /\ t # <<>> /\ IsSlug(t)
WellFormedNode(who, n) ==
    /\ {"id", "name", "type"} \subseteq n.has
    /\ Canonical(n.id)
    /\ n.name # None
    /\ n.type \in KnownNodeLabels(who)
WellFormedEdge(who, e) ==
    /\ {"source", "target", "type"} \subseteq e.has
    /\ Canonical(e.source)
    /\ Canonical(e.target)
    /\ e.type \in KnownEdgeLabels(who)
\* The type a label of the dictionaries stands for.
TypeOfNodeLabel(l) == IF l = "insight" THEN "concept" ELSE l
TypeOfEdgeLabel(l) == IF l \in {"supports", "relates_to"} THEN "related_to" ELSE l

\* C21: for a batch of well-formed raw records convert_to_schema emits one
\* GraphNode per raw node and one GraphEdge per raw edge, in input order, each
\* with the id (source, target) and the mapped type of its record.
C21_WellFormedBatch ==
    (/\ Converting
     /\ \A i \in 1..Len(raw_nodes.items) : WellFormedNode(schema.by, raw_nodes.items[i])
     /\ \A i \in 1..Len(raw_edges.items) : WellFormedEdge(schema.by, raw_edges.items[i]))
    => /\ ~schema.raised
       /\ Len(schema.nodes) = Len(raw_nodes.items)
       /\ Len(schema.edges) = Len(raw_edges.items)
       /\ \A i \in 1..Len(raw_nodes.items) :
             /\ schema.nodes[i].id = raw_nodes.items[i].id
             /\ schema.nodes[i].type = TypeOfNodeLabel(raw_nodes.items[i].type)
       /\ \A i \in 1..Len(raw_edges.items) :
             /\ schema.edges[i].source = raw_edges.items[i].source
             /\ schema.edges[i].target = raw_edges.items[i].target
             /\ schema.edges[i].type = TypeOfEdgeLabel(raw_edges.items[i].type)

\* ----------------------------------------------------- accumulation claims

\* C19: after any sequence of merges in run_batch_debates /
\* auto_debate_top_topics the accumulated node ids are pairwise distinct and
\* the accumulated (source, target, type) triples are pairwise distinct: the
\* same edge merged twice is kept once.
C19_AccumulatorDistinct ==
    /\ \A i, j \in 1..Len(all_nodes) : all_nodes[i].id = all_nodes[j].id => i = j
    /\ \A i, j \in 1..Len(all_edges) :
          (/\ all_edges[i].source = all_edges[j].source
           /\ all_edges[i].target = all_edges[j].target
           /\ all_edges[i].type = all_edges[j].type) => i = j

\* C20: a write (_add_node, create_node, create_nodes_batch) of a node whose
\* id is already stored does not erase a description or source label stored
\* earlier: an attribute that was not None is not None afterwards.
C20_NoErasure ==
    [][ /\ \A i \in 1..Len(nodes) :
              \E j \in 1..Len(nodes') :
                  /\ nodes'[j].id = nodes[i].id
                  /\ nodes[i].description # None => nodes'[j].description # None
                  /\ nodes[i].source_book # None => nodes'[j].source_book # None
        /\ \A r \in db :
              \E r2 \in db' :
                  /\ r2.id = r.id
                  /\ r.description # None => r2.description # None
                  /\ r.source_book # None => r2.source_book # None
      ]_vars

\* ------------------------------------------------------------ batch claims

\* The results, in topic order, of the topics whose debate did not raise.
RECURSIVE NodesOfCompleted(_)
NodesOfCompleted(done) ==
    IF done = <<>> THEN <<>>
    ELSE (IF Head(done).raised THEN <<>> ELSE Head(done).nodes)
             \o NodesOfCompleted(Tail(done))
RECURSIVE EdgesOfCompleted(_)
EdgesOfCompleted(done) ==
    IF done = <<>> THEN <<>>
    ELSE (IF Head(done).raised THEN <<>> ELSE Head(done).edges)
             \o EdgesOfCompleted(Tail(done))

\* C22: in a batch run a topic whose debate raises is skipped: the run
\* returns only after every topic has been debated, and the nodes / edges
\* accumulated and returned are the concatenation, in topic order, of the
\* results of the topics that did not raise.
C22_FailingTopicSkipped ==
    /\ batch # "none" =>
          /\ all_nodes = NodesOfCompleted(topics_done)
          /\ all_edges = EdgesOfCompleted(topics_done)
    /\ batch_result.status = "returned" =>
          /\ Len(topics_done) = topics
          /\ batch_result.nodes = NodesOfCompleted(topics_done)
          /\ batch_result.edges = EdgesOfCompleted(topics_done)

\* Three topics, the second raised a debater's error: the run returned the
\* first topic's and the third topic's nodes and edges.
C22_Witness ==
    /\ batch_result.status = "returned"
    /\ topics = 3
    /\ Len(topics_done) = 3
    /\ ~topics_done[1].raised /\ topics_done[1].nodes # <<>>
    /\ topics_done[2].raised /\ topics_done[2].error = "Exception"
    /\ ~topics_done[3].raised /\ topics_done[3].edges # <<>>
    /\ batch_result.nodes = topics_done[1].nodes \o topics_done[3].nodes
    /\ batch_result.edges = topics_done[1].edges \o topics_done[3].edges

\* The debate of a topic ended on the pool's exhaustion: an invoke used up its
\* retries on rate limits.
PoolExhausted(o) == o.raised /\ o.error = "RateLimitError"
\* Topic i was debated right after N topics in a row failed on PoolExhausted.
DebatedAfterStreak(i, N) ==
    /\ i > N
    /\ \A j \in (i - N)..(i - 1) : PoolExhausted(topics_done[j])
\* The N last topics debated failed on PoolExhausted.
EndsOnStreak(N) ==
    /\ Len(topics_done) >= N
    /\ \A j \in (Len(topics_done) - N + 1)..Len(topics_done) :
          PoolExhausted(topics_done[j])

\* C23: there is a number N of consecutive PoolExhausted topics (more than
\* one: a single failing topic never halts the run) such that a batch run
\* halts early when, and only when, N topics in a row have failed on
\* PoolExhausted: no topic is debated right after such a streak, and a run
\* that returns before its last topic ends on such a streak.
C23_HaltsOnStreak ==
    \E N \in 2..(MaxTopics - 1) :
        /\ \A i \in 1..Len(topics_done) : ~DebatedAfterStreak(i, N)
        /\ (batch_result.status = "returned" /\ Len(topics_done) < topics)
              => EndsOnStreak(N)

\* --------------------------------------------------------- the UI's claims

\* The turns (respond, analyze_and_extract) the debate has started.
TurnsStarted == Len(handed) + Len(extractions)

\* C24: once the running flag is cleared during a streamed debate, the loop
\* stops at the next event the generator yields (every turn and round
\* boundary is one); from then on no model call is started or continued for
\* that debate; with the flag cleared a turn is started only if the loop had
\* read the flag as set at that turn's thinking event; what earlier
\* graph_update events wrote to the database stays (stopping writes and
\* removes nothing).
C24_CooperativeCancel ==
    [][ /\ (~running /\ ui = "streaming" /\ Len(events') > Len(events))
              => ui' = "stopped"
        /\ (ui \in {"stopped", "finished", "failed"})
              => (call' = call /\ TurnsStarted' = TurnsStarted /\ ui' = ui)
        /\ (~running /\ TurnsStarted' > TurnsStarted)
              => (ui = "streaming" /\ paused = "thinking")
        /\ \A r \in db : \E r2 \in db' : r2.id = r.id
        /\ db_edges \subseteq db_edges'
        /\ (ui' = "stopped" /\ ui # "stopped") => (db' = db /\ db_edges' = db_edges)
      ]_vars

\* The debate was stopped in its second round, at a debater's message, after
\* the first round's graph_update had been written to the database.
C24_Witness ==
    /\ ui = "stopped"
    /\ ~running
    /\ round_num = 1
    /\ Last(events).type = "message"
    /\ CountOf(events, "graph_update") = 1
    /\ db # {}
    /\ db_edges # {}

\* ----------------------------------------------------- shared-pool claims

\* C25: whenever an agent issues a model call, the credential its client is
\* bound to is the one the pool's get_key returns at that moment, also when
\* the last rotation was another agent's.
C25_ClientFollowsPool ==
    \A i \in 1..Len(call.log) :
        call.log[i].key = get_key(keys, call.log[i].idx, {}).key

\* No thread is inside rotate or mark_failed.
NoMutationInProgress == \A t \in Threads : threads[t].at \notin {"add", "load", "store"}

\* C26: under concurrent calls of rotate, mark_failed and get_key from
\* several threads on one pool, after k completed rotate / mark_failed calls
\* the index has advanced by exactly k, and with at least one credential
\* configured no get_key raises or returns a value outside the configured
\* credentials.
C26_AtomicPool ==
    /\ NoMutationInProgress => current_index = completed
    /\ Len(keys) >= 1 =>
          \A t \in Threads :
              threads[t].op = "get_key" =>
                  /\ threads[t].at # "raised"
                  /\ threads[t].at = "returned" => threads[t].result \in Range(keys)

\* ------------------------------------------------------ extraction claims

\* analyze_and_extract returned after a failure: its last response did not
\* parse, or its last model call raised.
FailedExtraction ==
    /\ call.kind = "analyze"
    /\ call.status = "returned"
    /\ call.log # <<>>
    /\ (~Last(call.log).ok \/ Last(call.log).text \in Malformed)

\* C27: a failed extraction can be told from a successful extraction that
\* found nothing: the value analyze_and_extract returns after a failure is
\* not the pair of empty lists a successful empty extraction returns, and the
\* round's graph_update event is not the one of an empty extraction.
C27_FailureDistinguishable ==
    /\ [](FailedExtraction => RawPair(call.result.text) # RawPair("empty"))
    /\ [][ (FailedExtraction /\ mode = "stream" /\ Len(events') > Len(events))
             => events'[Len(events) + 1] # GraphUpdate(<<>>, <<>>) ]_vars

\* ------------------------------------------------------------ slug claims

\* C28: the derivation of a slug (slugify, the cartographer's id
\* normalization) is idempotent: applied to an id it has derived it returns
\* that id unchanged; applied twice to the same raw text it gives the same
\* slug.
C28_SlugIdempotent ==
    /\ slug.applied >= 1 => slug.once = Derive(slug.by, raw_text)
    /\ slug.applied = 2 => slug.twice = slug.once

\* slugify turned "A !a" into "a_a", and "a_a" into itself.
C28_Witness ==
    /\ slug.by = "slugify"
    /\ slug.applied = 2
    /\ raw_text = <<"A", " ", "!", "a">>
    /\ slug.once = <<"a", "_", "a">>
    /\ slug.twice = <<"a", "_", "a">>

\* ------------------------------------------------------ enrichment claims

\* C29: the enrichment pass does not modify the node and edge collections
\* passed to it, and every edge it returns has a source and a target that
\* are each the id of one of the existing nodes.
C29_EnrichWithinGraph ==
    /\ [](new_edges.status = "returned" =>
             \A i \in 1..Len(new_edges.edges) :
                 /\ \E n \in Range(existing_nodes) : n.id = new_edges.edges[i].source
                 /\ \E n \in Range(existing_nodes) : n.id = new_edges.edges[i].target)
    /\ [][existing_nodes' = existing_nodes /\ existing_edges' = existing_edges]_vars

\* --------------------------------------------------------- backoff claims

\* The log entry of a rate-limited attempt of the call in progress.
RateLimitedEntry(e) ==
    /\ ~e.ok
    /\ IF call.kind = "invoke"
       THEN "rate" \in e.msg \/ "limit" \in e.msg \/ "quota" \in e.msg
       ELSE "429" \in e.msg \/ "quota" \in e.msg

\* C30: on its k-th attempt (k = 1..max_retries), when rate-limited, the
\* extractor waits 15*k seconds, and this is strictly longer than what a
\* debater or a base agent waits on its rate-limited attempt of the same
\* index: 2^(k-1) seconds in invoke, 2 seconds in respond.
C30_ExtractorWaitsLonger ==
    \A k \in 1..Len(call.log) :
        RateLimitedEntry(call.log[k]) =>
            /\ call.kind = "analyze" => call.log[k].sleep = 15 * k
            /\ call.kind = "invoke" =>
                   call.log[k].sleep = 2 ^ (k - 1) /\ call.log[k].sleep < 15 * k
            /\ call.kind = "respond" =>
                   call.log[k].sleep = 2 /\ call.log[k].sleep < 15 * k

\* The extractor was rate-limited on every attempt up to the default
\* ceiling and waited 15, 30 and 45 seconds.
C30_Witness ==
    /\ call.kind = "analyze"
    /\ Len(call.log) = 3
    /\ \A k \in 1..3 : RateLimitedEntry(call.log[k])
    /\ <<call.log[1].sleep, call.log[2].sleep, call.log[3].sleep>> = <<15, 30, 45>>

\* ------------------------------------------------------ round-robin claims

\* The index after n calls of rotate().
RECURSIVE Rotated(_, _)
Rotated(idx, n) == IF n = 0 THEN idx ELSE Rotated(rotate(idx), n - 1)

Distinct(ks) == \A i, j \in 1..Len(ks) : ks[i] = ks[j] => i = j

C36_ExclusionNeverUsed ==
    /\ [](/\ failed_keys = {}
          /\ \A i \in 1..Len(call.log) :
                 call.log[i].idx2 # call.log[i].idx =>
                     call.log[i].llm2 = keys[(call.log[i].idx2 % Len(keys)) + 1])
    /\ [][keys' = keys /\ failed_keys' = failed_keys]_vars

\* One credential: the rate-limited attempt rotated and bound the same
\* credential again.
C36_Witness ==
    \E i \in 1..Len(call.log) :
        /\ ~call.log[i].ok
        /\ call.log[i].idx2 = call.log[i].idx + 1
        /\ call.log[i].llm2 = call.log[i].key
        /\ call.log[i].key # NoKey

\* --------------------------------------------------- classification claims

\* What a retry loop did with a failed attempt: it rotated the pool, it only
\* waited, or it ended the call.
TreatedAs(e) ==
    IF e.idx2 # e.idx THEN "rate_limit"
    ELSE IF e.sleep > 0 THEN "transient"
    ELSE "non_retryable"

\* C37: the same failure message is put in the same class (rate limit,
\* transient, non-retryable) by invoke, respond and analyze_and_extract:
\* each loop treats a failed attempt as invoke classifies its message, so a
\* message with 'rate limit' but neither '429' nor 'quota' rotates and
\* retries in all three.
C37_SameClassification ==
    \A i \in 1..Len(call.log) :
        ~call.log[i].ok => TreatedAs(call.log[i]) = classify_invoke(call.log[i].msg)

\* ------------------------------------------------------- extractor claims

\* The attempt of log entry e failed with a message that is not a rate limit
\* for the extractor.
OtherFailure(e) == ~e.ok /\ "429" \notin e.msg /\ "quota" \notin e.msg
\* The attempt of log entry e came back with a payload that does not parse.
ParseFailure(e) == e.ok /\ e.text \in {"unparseable", "truncated"}

\* C33: in analyze_and_extract a failure that is not a rate limit returns
\* ([], []) on that very attempt, with no further model call and no
\* rotation; a parse failure goes on to the next attempt with no sleep and
\* no rotation; and the call never raises.
C33_ExtractorFailureModes ==
    call.kind = "analyze" =>
        /\ call.status # "raised"
        /\ \A i \in 1..Len(call.log) :
               /\ OtherFailure(call.log[i]) =>
                      /\ i = Len(call.log)
                      /\ call.status = "returned"
                      /\ RawPair(call.result.text) = RawPair("empty")
                      /\ call.log[i].idx2 = call.log[i].idx
                      /\ call.log[i].llm2 = call.log[i].key
               /\ ParseFailure(call.log[i]) =>
                      /\ call.log[i].sleep = 0
                      /\ call.log[i].idx2 = call.log[i].idx
                      /\ call.log[i].llm2 = call.log[i].key
                      /\ i < call.max_retries =>
                             call.status = "running" \/ Len(call.log) > i
                      /\ i = Len(call.log) /\ call.status = "running" =>
                             call.attempt = i

\* A parse failure on the first attempt, then a failure that is not a rate
\* limit on the second: the call returned at once.
C33_Witness ==
    /\ call.kind = "analyze"
    /\ call.status = "returned"
    /\ Len(call.log) = 2
    /\ ParseFailure(call.log[1])
    /\ OtherFailure(call.log[2])

\* ------------------------------------------------------- vocabulary claims

\* C40: every label that is literally a value of the closed vocabulary
\* normalizes to itself in both normalizers: a raw node typed with a
\* NodeType value yields a GraphNode of that type, a raw edge labelled with
\* an EdgeType value yields a GraphEdge of that type.
C40_VocabularyIsFixed ==
    (/\ schema.by # "none"
     /\ Len(raw_nodes.items) = 1 /\ Len(raw_edges.items) = 1
     /\ "type" \in raw_nodes.items[1].has
     /\ raw_nodes.items[1].type \in
            {"concept", "technique", "risk", "defense", "person", "book", "chapter",
             "outcome"}
     /\ {"type", "relation"} \subseteq raw_edges.items[1].has
     /\ raw_edges.items[1].type = raw_edges.items[1].relation
     /\ raw_edges.items[1].type \in
            {"leads_to", "prevents", "causes", "counters", "requires", "part_of",
             "related_to", "mentioned_in", "uses", "exploits", "enables",
             "contradicts", "supports"}) =>
        /\ Len(schema.nodes) = 1
        /\ schema.nodes[1].type = raw_nodes.items[1].type
        /\ Len(schema.edges) = 1
        /\ schema.edges[1].type = raw_edges.items[1].type

\* ----------------------------------------------------------- prompt claims

\* The turns i..Len(h) of h, one 'speaker: text' line each.
RECURSIVE LinesFrom(_, _)
LinesFrom(h, i) ==
    h[i].agent \o ": " \o h[i].content
        \o (IF i < Len(h) THEN "\n" \o LinesFrom(h, i + 1) ELSE "")

\* C31: the conversation block of a debater's prompt holds exactly the last
\* min(4, |history|) turns of the history, in transcript order, each as
\* 'speaker: text', and no older turn; with an empty history it holds the
\* 'new debate' placeholder.
C31_LastFourTurns ==
    \A k \in 1..Len(handed) :
        handed[k].agent \in {"Attacker", "Defender", "Strategist"} =>
            LET h == handed[k].history
            IN  IF Len(h) = 0 THEN handed[k].conv_text = "new debate"
                ELSE handed[k].conv_text = LinesFrom(h, IF Len(h) > 4 THEN Len(h) - 3 ELSE 1)

\* The strategist of the second round is handed five turns and its prompt
\* holds the last four.
C31_Witness ==
    /\ Len(handed) >= 6
    /\ Len(handed[6].history) = 5
    /\ handed[6].conv_text = "Defender: t1\nStrategist: t1\nAttacker: t1\nDefender: t1"
    /\ Len(handed[1].history) = 0
    /\ handed[1].conv_text = "new debate"

\* --------------------------------------------------------- UI tally claims

\* The graph_update events the stream has yielded.
GraphUpdates == {k \in 1..Len(events) : events[k].type = "graph_update"}
\* The node ids and the (source, target, type) triples of those events.
NodeIdsSeen ==
    UNION {{events[k].nodes[i].id : i \in 1..Len(events[k].nodes)} : k \in GraphUpdates}
TriplesSeen ==
    UNION {{<<events[k].edges[i].source, events[k].edges[i].target,
              events[k].edges[i].type>> : i \in 1..Len(events[k].edges)} :
               k \in GraphUpdates}

\* C32: in streaming mode the totals recorded for a debate (node_count and
\* edge_count, tallied over the graph_update events and saved to the
\* history) count each node id and each (source, target, type) triple at
\* most once, although every round extracts from the whole transcript.
C32_TotalsCountOnce ==
    /\ node_count <= Cardinality(NodeIdsSeen)
    /\ edge_count <= Cardinality(TriplesSeen)
    /\ \A k \in 1..Len(saved) :
           /\ saved[k].node_count <= Cardinality(NodeIdsSeen)
           /\ saved[k].edge_count <= Cardinality(TriplesSeen)

\* ------------------------------------------------------- queue tab claims

\* C38: in the queue run of the UI a topic is appended to the completed log,
\* and its debate saved to the history, only if its streamed debate ran to
\* the complete event; a topic whose debate was cut short by the stop
\* control or by an exception stays pending.
C38_CompletedOnlyWhenComplete ==
    \A k \in 1..Len(attempted) :
        (\/ \E j \in 1..Len(completed_log) :
                j > Len(all_topics) - Len(pending) /\ completed_log[j] = attempted[k].topic
         \/ \E j \in 1..Len(saved) : saved[j].topic = attempted[k].topic)
            => attempted[k].final = "complete"

\* ------------------------------------------------------ base graph claims

NodeIds == {nodes[i].id : i \in 1..Len(nodes)}

\* C34: while extract_all accumulates the records, the node ids are pairwise
\* distinct, no two edges have the same (source, target, type), both ends of
\* every edge are ids of accumulated nodes, and a node that was accumulated
\* stays as it was first seen.
C34_AccumulatedGraph ==
    /\ [](/\ \A i, j \in 1..Len(nodes) : nodes[i].id = nodes[j].id => i = j
          /\ \A i, j \in 1..Len(extractor_edges) :
                 (/\ extractor_edges[i].source = extractor_edges[j].source
                  /\ extractor_edges[i].target = extractor_edges[j].target
                  /\ extractor_edges[i].type = extractor_edges[j].type) => i = j
          /\ \A i \in 1..Len(extractor_edges) :
                 /\ extractor_edges[i].source \in NodeIds
                 /\ extractor_edges[i].target \in NodeIds)
    /\ [][/\ Len(nodes') >= Len(nodes)
          /\ \A i \in 1..Len(nodes) : nodes'[i] = nodes[i]]_vars

\* Records of two books were accumulated that share the concept and the risk:
\* the first book's "causes" edge stands, the second one's was suppressed and
\* only its "prevents" edge was added.
C34_Witness ==
    /\ \E i \in 1..Len(extractor_edges) :
           /\ extractor_edges[i].type = "causes"
           /\ extractor_edges[i].source_book = <<"a", " ", "a">>
    /\ \E i \in 1..Len(extractor_edges) :
           /\ extractor_edges[i].type = "prevents"
           /\ extractor_edges[i].source_book = <<"a">>
    /\ \A i \in 1..Len(extractor_edges) :
           extractor_edges[i].type = "causes" =>
               extractor_edges[i].source_book = <<"a", " ", "a">>
    /\ \E i \in 1..Len(nodes) : nodes[i].id = <<"a">> /\ nodes[i].type = "book"

\* -------------------------------------------------------- resume claims

\* The pass of the loop that has just been made.
JustAttempted == Len(attempted') = Len(attempted) + 1
LastAttempt == attempted'[Len(attempted')]

\* C39: in run_auto_debate with resume on, a topic that is in the completed
\* log is not debated again, no topic is attempted twice in one run, and the
\* log grows only by the topic whose run_debate has just returned: a topic
\* whose debate raised is still pending for the next run.
C39_ResumeSkipsCompleted ==
    /\ [](\A i, j \in 1..Len(attempted) :
              attempted[i].topic = attempted[j].topic => i = j)
    /\ [][/\ JustAttempted => LastAttempt.topic \notin Range(completed_log)
          /\ completed_log' # completed_log =>
                 /\ JustAttempted
                 /\ LastAttempt.how = "returned"
                 /\ completed_log' = Append(completed_log, LastAttempt.topic)
          /\ (JustAttempted /\ LastAttempt.how = "raised") =>
                 /\ completed_log' = completed_log
                 /\ LastAttempt.topic \in Range(not_completed(all_topics, completed_log'))
         ]_vars

====
